---- MODULE Spec2Model ----
(***************************************************************************)
(* Model of the radar acquisition service (src/test.py): the acquisition   *)
(* thread run_radar_loop, the websocket handler that submits               *)
(* reconfigurations, and the shared state they communicate through.        *)
(* A second part models the watchdog variant (src/web.py): one acquisition *)
(* thread per configuration, the watchdog thread and the handler that      *)
(* replaces the acquisition thread.                                        *)
(*                                                                         *)
(* Units.  Distances are centimetres, chirp durations microseconds, peak   *)
(* magnitudes and thresholds hundredths; smoothed values are exact         *)
(* rationals [n, d] (d = 0 stands for Python's None).  Range keys are the  *)
(* ASCII prefixes of the keys of RANGE_PRESETS, directions the ASCII       *)
(* spellings of the Czech labels of the source.                            *)
(***************************************************************************)
EXTENDS Integers, Sequences, FiniteSets, TLC

\* ------------------------------------------------------------------------
\* Program constants
\* ------------------------------------------------------------------------
EMA_ALPHA_NUM == 2
EMA_ALPHA_DEN == 5
DEFAULT_PEAK_THRESHOLD == 20
DEFAULT_RANGE_KEY == "8m"
DEFAULT_FRAME_RATE == 20
DEFAULT_NUM_CHIRPS == 32
HistoryMaxLen == 200
NumSectors == 64
FallbackChirpDurationUs == 128
BudgetPercent == 90
MaxSpeed == 3
SpeedResolutionInv == 5
NumSamples == 64
PEAK_THRESHOLD == 20
FIXED_DISTANCE_CM == 50
DISTANCE_TOLERANCE_CM == 5
RANGE_START_CM == 20
RANGE_END_CM == 100
ServerRangeResolutionCm == 5
WATCHDOG_TIMEOUT_S == 10
HandlerMaxS == 3

\* RANGE_PRESETS: key -> <<max range, range resolution>>, in centimetres.
RANGE_PRESETS ==
    [k \in {"3m", "8m"} |-> IF k = "3m" THEN <<300, 10>> ELSE <<800, 20>>]

\* ------------------------------------------------------------------------
\* Bounds of the model
\* ------------------------------------------------------------------------
MaxFrames == 1
MaxFaults == 1
MaxMsgs == 2
MaxCycleFrames == 3
SteadyRun == 50
MaxTime == 17
MaxWebMsgs == 1
MaxWebFaults == 1
MaxLoopMsgs == 1
MaxServerFrames == 3
MaxServerFaults == 1

\* frames_left = Endless: the device never runs out of frames.
Endless == 0 - 1

\* ------------------------------------------------------------------------
\* Exact arithmetic on the values Python holds as floats
\* ------------------------------------------------------------------------
RECURSIVE GCD(_, _)
GCD(a, b) == IF b = 0 THEN a ELSE GCD(b, a % b)

Abs(x) == IF x < 0 THEN 0 - x ELSE x

None == [n |-> 0, d |-> 0]

IsNone(x) == x.d = 0

Rat(n, d) ==
    LET g == GCD(Abs(n), d)
    IN  [n |-> n \div g, d |-> d \div g]

RatLess(a, b) == a.n * b.d < b.n * a.d

RatMax(a, b) == IF RatLess(a, b) THEN b ELSE a

RatAbs(a) == [n |-> Abs(a.n), d |-> a.d]

Zero == Rat(0, 1)

\* A variant with the two weights exchanged.
EmaSwapped(new, prev) ==
    Rat((EMA_ALPHA_DEN - EMA_ALPHA_NUM) * new.n * prev.d
            + EMA_ALPHA_NUM * prev.n * new.d,
        EMA_ALPHA_DEN * new.d * prev.d)

\* EMA_ALPHA * new + (1 - EMA_ALPHA) * prev
Ema(new, prev) ==
    Rat(EMA_ALPHA_NUM * new.n * prev.d
            + (EMA_ALPHA_DEN - EMA_ALPHA_NUM) * prev.n * new.d,
        EMA_ALPHA_DEN * new.d * prev.d)

\* ------------------------------------------------------------------------
\* DopplerAlgo: the axis tables
\* ------------------------------------------------------------------------
\* range_axis[r] = r * range_resolution, in cm
RangeAxis(r, range_res) == Rat(r * range_res, 1)

\* A variant whose axis leaves out the upper end point.
SpeedAxisOpen(d, chirps) ==
    Rat((0 - MaxSpeed) * chirps + 2 * MaxSpeed * d, chirps)

\* speed_axis[d] = linspace(-max_speed, max_speed, chirps)[d]
SpeedAxis(d, chirps) ==
    IF chirps = 1 THEN Rat(0 - MaxSpeed, 1)
    ELSE Rat((0 - MaxSpeed) * (chirps - 1) + 2 * MaxSpeed * d, chirps - 1)

\* ------------------------------------------------------------------------
\* The timing budget of the Configuring step
\* ------------------------------------------------------------------------
UsPerS == 1000 * 1000

\* available_time_s * 0.9, scaled by the frame rate: 0.9 s in microseconds
BudgetUs == (BudgetPercent * UsPerS) \div 100

\* A variant that compares with 10% of the frame period.
BudgetExceededTenth(chirps, frate, dur) ==
    chirps * dur * frate > UsPerS - BudgetUs

\* required_time_s > available_time_s * 0.9
BudgetExceeded(chirps, frate, dur) == chirps * dur * frate > BudgetUs

\* A variant that fills the whole frame period.
ClampedChirpsNoHeadroom(frate, dur) == UsPerS \div (frate * dur)

\* int((available_time_s * 0.9) / chirp_duration_s)
ClampedChirps(frate, dur) == BudgetUs \div (frate * dur)

\* ------------------------------------------------------------------------
\* Values
\* ------------------------------------------------------------------------
AbsentStr == "absent"
AbsentInt == 0 - 1

\* What a websocket client sends: any JSON object.  The model draws from a
\* few messages: the dashboard's own choices and values it does not offer.
Msgs ==
    { [range_key |-> "3m",  frate |-> 20,   num_chirps |-> 32,  sensitivity |-> 20],
      [range_key |-> "8m",  frate |-> 60,   num_chirps |-> 64,  sensitivity |-> 20],
      [range_key |-> "8m",  frate |-> 60,   num_chirps |-> 200, sensitivity |-> 20],
      [range_key |-> "8m",  frate |-> 20,   num_chirps |-> 32,  sensitivity |-> 50],
      [range_key |-> "bad", frate |-> 20,   num_chirps |-> 32,  sensitivity |-> 20],
      [range_key |-> "8m",  frate |-> 0,    num_chirps |-> 32,  sensitivity |-> 20],
      [range_key |-> "8m",  frate |-> 9000, num_chirps |-> 32,  sensitivity |-> 20] }

\* A frame as compute_doppler_map sees it: where the strongest echo lies
\* (Doppler row, range column) and how strong it is, whether the frame has
\* the shape the processor was built for, and whether all its chirps are
\* identical (an echo without any Doppler shift).
Frame(row, col, peak) ==
    [row |-> row, col |-> col, peak |-> peak, shape |-> "configured",
     static |-> FALSE]

\* A frame of zeros: the argmax of its map is the cell (0, 0).
EmptyFrame == Frame("first", 0, 0)

Frames ==
    { EmptyFrame,
      Frame("mid", 5, 30),
      Frame("first", 20, 100) }

\* A richer scene: a peak exactly at the default threshold and one just
\* below it, an approaching target at range column 30, a receding one.
CycleFrames ==
    { EmptyFrame,
      Frame("mid", 5, 20),
      Frame("mid", 5, 19),
      Frame("first", 30, 30),
      Frame("last", 12, 100) }

\* A synthetic frame: every chirp is the same sinusoid at range column 5.
StaticFrame == [Frame("mid", 5, 100) EXCEPT !.static = TRUE]

\* Frames whose shape is not the one the processor was built for: another
\* number of samples per chirp, another number of chirps.
MismatchedFrames ==
    { [Frame("mid", 5, 100) EXCEPT !.shape = "other_samples"],
      [Frame("mid", 5, 100) EXCEPT !.shape = "other_chirps"] }

\* The frames a test bench may feed to the processor.
ProbeFrames == CycleFrames \cup {StaticFrame} \cup MismatchedFrames

\* One hundred centimetres at zero speed, with the peak at the threshold and
\* above it.
SteadyFrames == { Frame("mid", 5, 20), Frame("mid", 5, 30) }

\* chirp.duration_s as the device derives it from the metrics of a range
\* preset (microseconds); the fallback of the source is one of the values.
\* Messages that leave out some of the keys the dashboard always sends.
PartialMsgs ==
    { [range_key |-> "3m", frate |-> AbsentInt, num_chirps |-> AbsentInt,
       sensitivity |-> 20],
      [range_key |-> AbsentStr, frate |-> 60, num_chirps |-> 32,
       sensitivity |-> 20],
      [range_key |-> "8m", frate |-> 60, num_chirps |-> AbsentInt,
       sensitivity |-> AbsentInt],
      [range_key |-> AbsentStr, frate |-> AbsentInt, num_chirps |-> AbsentInt,
       sensitivity |-> 50],
      [range_key |-> "3m", frate |-> 20, num_chirps |-> 32,
       sensitivity |-> 20] }

\* A client that asks for 200 chirps at 60 Hz and then moves only the
\* sensitivity slider: the dashboard sends all four values every time.
RepeatingMsgs ==
    { [range_key |-> "8m", frate |-> 60, num_chirps |-> 200, sensitivity |-> 20],
      [range_key |-> "8m", frate |-> 60, num_chirps |-> 200, sensitivity |-> 50] }

ChirpDurations == {FallbackChirpDurationUs, 500}

NoDevice == [state |-> "None", range_key |-> "", frate |-> 0, num_chirps |-> 0]

NoAlgo == [num_chirps_per_frame |-> 0, range_resolution |-> 0]

NoWarning == [issued |-> FALSE, original_chirps |-> 0, num_chirps |-> 0]

\* The two module-level threading.Lock objects.
Locks == {"state_lock", "watchdog_lock"}

\* The acquisition thread, the watchdog thread and the thread of the event
\* loop, which runs the websocket handlers and get_plot.
Threads == {"radar", "watchdog", "loop"}

\* A thread between two sections.
Idle == [section |-> "none", ops |-> <<>>, alive |-> TRUE]

\* The websocket clients connected to src/web.py.
Clients == {"first", "second"}

NoMsg == [range_key |-> "", frate |-> 0, num_chirps |-> 0, sensitivity |-> 0]

\* reset_stats()
reset_stats ==
    [min_dist_cm |-> None, max_dist_cm |-> Zero,
     min_speed_ms |-> None, max_speed_ms |-> Zero,
     min_peak |-> None, max_peak |-> Zero]

NoSectors == [i \in 0 .. NumSectors - 1 |-> "none"]

Payload(status, distance_cm, speed_ms, direction, peak, st) ==
    [status |-> status, distance_cm |-> distance_cm, speed_ms |-> speed_ms,
     direction |-> direction, peak |-> peak, stats |-> st]

NoSample == [distance |-> None, speed |-> None, peak |-> None]

NoFrame == [Frame("none", 0, 0) EXCEPT !.shape = "none"]

\* No call of the device was made yet.
NoCall == [op |-> "none", lock |-> "none"]

DeviceCall(op, lock) == [op |-> op, lock |-> lock]

NoFed == [dist_lo |-> None, dist_hi |-> None, speed_lo |-> None, speed_hi |-> None]

NoPayload == Payload("none", None, None, "---", None, reset_stats)

WaitingPayload == Payload("waiting_for_device", None, None, "---", None, reset_stats)

VARIABLES
    shared_state,       \* the dictionary guarded by state_lock
    data_history,       \* deque(maxlen=200) of [dist, dir]
    sector_states,      \* 64 cells
    pc,                 \* where run_radar_loop stands
    device,             \* the handle held by run_radar_loop, and its sequence
    algo,               \* the DopplerAlgo in use
    smoothed_distance, smoothed_speed, stats,
    frate, range_key, num_chirps,   \* locals read from shared_state
    sample,             \* distance_m (in cm), speed_ms, peak_value of the cycle
    frame_contents,     \* the frame of the cycle
    data_payload,       \* the reading built in this cycle
    published,          \* the last message handed to broadcast_sync
    warning,            \* the 'warning' log of the last Configuring step
    applied,            \* the shared configuration as read when connecting
    teardown,           \* how the previous device handle was released
    inflight,           \* a request arrived while a frame was being acquired
    last_msg,           \* the last message that asked for a reconfiguration
    fed,                \* range of the valid samples since smoothing was unset
    device_call,        \* the last call of the device, and the lock held then
    scene,              \* the frames the device may deliver
    chirp_duration,     \* the device's chirp duration for each range preset
    inbox,              \* the messages that clients may send
    frames_left, faults_left, msgs_left,  \* what the environment may still do
    \* src/web.py
    now,                \* datetime.now(), in seconds since the process started
    last_frame_time,    \* the liveness marker
    marker_writer,      \* who wrote last_frame_time last, and under which lock
    last_success,       \* when get_next_frame last returned a frame
    watchdog_due,       \* when the watchdog's sleep ends
    restarted,          \* os.execv has replaced the process
    radar_pc,           \* where the thread held in radar_thread stands
    radar_args,         \* the range_key and frate that thread was started with
    handler_pc,         \* where the websocket handler stands
    handler_args,       \* the range_key and frate of the message being handled
    handler_since,      \* when the handler took thread_lock
    stop_radar_thread,  \* the Event
    orphans,            \* threads the handler gave up joining, still alive
    web_msgs_left, web_faults_left,
    \* src/web.py, the handlers of several clients on the one event loop
    thread_lock,        \* the handler coroutine that holds thread_lock
    coro,               \* where the handler coroutine of each client stands
    loop_thread,        \* what the thread of the event loop is doing
    loop_msgs_left,
    \* src/histogram.py and src/test.py, the threads and their locks
    program,            \* the script that runs
    lock_holder,        \* the thread that holds each threading.Lock
    threads,            \* the section each thread executes and what is left
    \* src/radar_webserver.py, the measurement thread
    webserver,
    \* src/helper.py and src/dop_me.py, one frame through DopplerAlgo
    doppler

controller ==
    <<pc, device, algo, smoothed_distance, smoothed_speed, stats,
      frate, range_key, num_chirps, sample, frame_contents, data_payload>>

observed ==
    <<published, warning, applied, teardown, inflight, last_msg, fed,
      device_call>>

environment == <<chirp_duration, inbox, scene, frames_left, faults_left, msgs_left>>

\* The state of src/test.py
acquisition ==
    <<shared_state, data_history, sector_states, controller, observed,
      environment>>

\* The handlers of src/web.py, one coroutine per client
event_loop == <<thread_lock, coro, loop_thread, loop_msgs_left>>

\* The threads of src/histogram.py and of src/test.py and their locks
locking == <<program, lock_holder, threads>>

\* What the threads of src/web.py modelled below leave alone.
others == <<event_loop, locking, webserver, doppler>>

\* The state of src/web.py
web ==
    <<now, last_frame_time, marker_writer, last_success, watchdog_due,
      restarted, radar_pc, radar_args, handler_pc, handler_args,
      handler_since, stop_radar_thread, orphans,
      web_msgs_left, web_faults_left, others>>

vars == <<acquisition, web>>

\* ------------------------------------------------------------------------
\* Pure steps of the acquisition cycle
\* ------------------------------------------------------------------------
\* The Doppler row of a frame's peak, for a map of `chirps` rows.
DopplerIdx(row, chirps) ==
    IF row = "first" THEN 0
    ELSE IF row = "mid" THEN chirps \div 2
    ELSE chirps - 1

\* frame_data * range_window and range_fft_mti * doppler_window[:, newaxis]:
\* arrays of different lengths cannot be broadcast (ValueError), unless one of
\* the lengths is 1.
BroadcastFails(frame, a) ==
    \/ frame.shape = "other_samples"
    \/ frame.shape = "other_chirps" /\ a.num_chirps_per_frame # 1

\* A Doppler FFT over no chirps raises ValueError as well.
ComputeRaises(frame, a) ==
    IF a.num_chirps_per_frame < 1 THEN TRUE ELSE BroadcastFails(frame, a)

\* range_fft - np.mean(range_fft, axis=0): what all chirps have in common is
\* removed, so a frame of identical chirps leaves a map of zeros.
Mti(frame) ==
    IF frame.static THEN [frame EXCEPT !.row = "first", !.col = 0, !.peak = 0]
    ELSE frame

\* np.unravel_index(np.argmax(range_doppler_map), range_doppler_map.shape)
PeakCell(frame, a) ==
    [doppler_idx |-> DopplerIdx(Mti(frame).row,
                        IF frame.shape = "other_chirps"
                        THEN a.num_chirps_per_frame + 1
                        ELSE a.num_chirps_per_frame),
     range_idx |-> Mti(frame).col]

\* DopplerAlgo.compute_doppler_map: the axis lookup of the peak cell, and the
\* fallback when an index is outside its axis.
compute_doppler_map(frame, a) ==
    LET doppler_idx == PeakCell(frame, a).doppler_idx
        range_idx == PeakCell(frame, a).range_idx
    IN  IF range_idx < NumSamples \div 2 /\ doppler_idx < a.num_chirps_per_frame
        THEN [distance |-> RangeAxis(range_idx, a.range_resolution),
              speed |-> SpeedAxis(doppler_idx, a.num_chirps_per_frame),
              peak |-> Rat(Mti(frame).peak, 100)]
        ELSE [distance |-> Zero, speed |-> Zero, peak |-> Zero]

\* A variant that accepts every peak that is not negative.
IsTargetNonNegative(peak_value, threshold) == ~RatLess(peak_value, Zero)

\* A variant that wants the peak strictly above the threshold.
IsTargetAbove(peak_value, threshold) == RatLess(Rat(threshold, 100), peak_value)

\* peak_value >= current_peak_threshold
IsTarget(peak_value, threshold) == ~RatLess(peak_value, Rat(threshold, 100))

\* A variant that blends the first sample with zero.
SmoothFromZero(new, prev) == Ema(new, IF IsNone(prev) THEN Zero ELSE prev)

\* if smoothed_distance is None: take the sample; else: the moving average
Smooth(new, prev) == IF IsNone(prev) THEN new ELSE Ema(new, prev)

\* A variant with the two signs exchanged.
ClassifySwapped(speed) ==
    IF RatLess(RatAbs(speed), Rat(1, SpeedResolutionInv)) THEN "Staticky"
    ELSE IF RatLess(speed, Zero) THEN "Vzdalovani"
    ELSE "Priblizovani"

\* abs(smoothed_speed) < metrics.speed_resolution_m_s, then the sign
Classify(speed) ==
    IF RatLess(RatAbs(speed), Rat(1, SpeedResolutionInv)) THEN "Staticky"
    ELSE IF RatLess(speed, Zero) THEN "Priblizovani"
    ELSE "Vzdalovani"

\* A variant that takes an unset minimum for zero.
RatMinFromZero(cur, x) ==
    IF RatLess(x, IF IsNone(cur) THEN Zero ELSE cur) THEN x
    ELSE IF IsNone(cur) THEN Zero ELSE cur

RatMin(cur, x) == IF IsNone(cur) \/ RatLess(x, cur) THEN x ELSE cur

\* A variant whose minima follow the latest valid sample.
UpdateStatsLatest(st, dist, speed, peak) ==
    [min_dist_cm |-> dist,
     max_dist_cm |-> RatMax(st.max_dist_cm, dist),
     min_speed_ms |-> speed,
     max_speed_ms |-> RatMax(st.max_speed_ms, speed),
     min_peak |-> peak,
     max_peak |-> RatMax(st.max_peak, peak)]

UpdateStats(st, dist, speed, peak) ==
    [min_dist_cm |-> RatMin(st.min_dist_cm, dist),
     max_dist_cm |-> RatMax(st.max_dist_cm, dist),
     min_speed_ms |-> RatMin(st.min_speed_ms, speed),
     max_speed_ms |-> RatMax(st.max_speed_ms, speed),
     min_peak |-> RatMin(st.min_peak, peak),
     max_peak |-> RatMax(st.max_peak, peak)]

\* The smallest and largest valid sample since the smoothing memory was
\* unset, widened by one more sample.
Feed(f, smp) ==
    [dist_lo |-> RatMin(f.dist_lo, smp.distance),
     dist_hi |-> IF IsNone(f.dist_hi) THEN smp.distance
                 ELSE RatMax(f.dist_hi, smp.distance),
     speed_lo |-> RatMin(f.speed_lo, smp.speed),
     speed_hi |-> IF IsNone(f.speed_hi) THEN smp.speed
                  ELSE RatMax(f.speed_hi, smp.speed)]

\* A variant that rounds to the nearest cell.
SectorIndexRounded(dist, max_range_cm) ==
    (2 * dist.n * NumSectors + dist.d * max_range_cm)
        \div (2 * dist.d * max_range_cm)

\* int((smoothed_distance / max_range_cm_current) * 64)
SectorIndex(dist, max_range_cm) ==
    (dist.n * NumSectors) \div (dist.d * max_range_cm)

CssDirection(direction) ==
    IF direction = "Priblizovani" THEN "approaching"
    ELSE IF direction = "Vzdalovani" THEN "receding"
    ELSE "static"

\* deque(maxlen=200).append
HistoryAppend(h, e) ==
    IF Len(h) < HistoryMaxLen THEN Append(h, e) ELSE Append(Tail(h), e)

\* A variant in which compute_doppler_map stands outside the try.
RaiseEscapes(site) == IF site = "compute" THEN "terminated" ELSE "except"

\* Where an exception raised in the body of the loop takes the thread.
Raise(site) == "except"

\* A device call fails only while the environment still has faults to give.
Outcomes == IF faults_left > 0 THEN {TRUE, FALSE} ELSE {TRUE}

\* The frames the device may deliver next.
Scene == scene

\* ------------------------------------------------------------------------
\* Initial states
\* ------------------------------------------------------------------------
\* The thread and its surroundings before its first pass of the loop.
FreshController ==
    /\ sector_states = NoSectors
    /\ pc = "top"
    /\ device = NoDevice
    /\ algo = NoAlgo
    /\ smoothed_distance = None
    /\ smoothed_speed = None
    /\ stats = reset_stats
    /\ frate = 0
    /\ range_key = ""
    /\ num_chirps = 0
    /\ sample = NoSample
    /\ frame_contents = NoFrame
    /\ fed = NoFed
    /\ device_call = NoCall
    /\ data_payload = NoPayload
    /\ published = NoPayload
    /\ warning = NoWarning
    /\ applied = NoMsg
    /\ teardown = "none"
    /\ inflight = FALSE
    /\ last_msg = NoMsg

ProgramStart ==
    /\ FreshController
    /\ shared_state = [frate |-> DEFAULT_FRAME_RATE,
                       range_key |-> DEFAULT_RANGE_KEY,
                       peak_threshold |-> DEFAULT_PEAK_THRESHOLD,
                       num_chirps |-> DEFAULT_NUM_CHIRPS,
                       reconfigure |-> TRUE]
    /\ \E dur \in ChirpDurations :
            chirp_duration = [k \in DOMAIN RANGE_PRESETS |-> dur]
    /\ faults_left = MaxFaults
    /\ msgs_left = MaxMsgs

\* The clients send what the dashboard offers and a few values it does not.
InitProgram ==
    /\ ProgramStart
    /\ inbox = Msgs

\* src/web.py after lifespan has started the watchdog and the first
\* acquisition thread.
WebStart ==
    /\ now = 0
    /\ last_frame_time = 0
    /\ marker_writer = [by |-> "lifespan", lock |-> "thread_lock"]
    /\ last_success = 0
    /\ watchdog_due = WATCHDOG_TIMEOUT_S \div 2
    /\ restarted = FALSE
    /\ radar_pc = "open"
    /\ radar_args = [range_key |-> DEFAULT_RANGE_KEY, frate |-> DEFAULT_FRAME_RATE]
    /\ handler_pc = "idle"
    /\ handler_args = [range_key |-> DEFAULT_RANGE_KEY, frate |-> DEFAULT_FRAME_RATE]
    /\ handler_since = 0
    /\ stop_radar_thread = FALSE
    /\ orphans = 0
    /\ web_msgs_left = MaxWebMsgs
    /\ web_faults_left = MaxWebFaults
    /\ thread_lock = "free"
    /\ coro = [c \in Clients |->
                [at |-> "receive",
                 args |-> [range_key |-> DEFAULT_RANGE_KEY,
                           frate |-> DEFAULT_FRAME_RATE]]]
    /\ loop_thread = "running"
    /\ loop_msgs_left = [c \in Clients |-> MaxLoopMsgs]

\* The numbers of chirps per frame that the device may choose for
\* helper.py and dop_me.py.
DopplerChirps == {16, 32, 64}

\* One frame of chirps rows whose Doppler map has its peak in row
\* doppler_idx and column range_idx, before DopplerAlgo has seen it.
DopplerFrame(file, chirps, doppler_idx, range_idx) ==
    [file |-> file, chirps |-> chirps, doppler_idx |-> doppler_idx,
     range_idx |-> range_idx, at |-> "frame", raised |-> "none",
     distance |-> None, speed |-> None, direction |-> "none"]

NoDoppler == DopplerFrame("none", 0, 0, 0)

\* The frames that the device of src/radar_webserver.py delivers.
ServerFrames ==
    { EmptyFrame,
      Frame("mid", 10, 30),
      Frame("mid", 10, 19),
      Frame("last", 4, 50),
      Frame("first", 20, 100) }

\* DopplerAlgo(chirp.num_samples, chirp_loop.loop.num_repetitions, metrics)
\* with range_resolution_m=0.05.
ServerAlgo ==
    [num_chirps_per_frame |-> DEFAULT_NUM_CHIRPS,
     range_resolution |-> ServerRangeResolutionCm]

\* run_radar_loop of src/radar_webserver.py before its first frame.  The
\* field carried remembers the smoothed values of the last valid sample
\* since the smoothing memory was unset.
FreshServer ==
    [smoothed_distance |-> None, smoothed_speed |-> None,
     direction |-> "unbound", sample |-> NoSample,
     published |-> [status |-> "none", distance_cm |-> Zero,
                    speed_ms |-> Zero, direction |-> "---", peak |-> Zero,
                    event |-> "none"],
     carried |-> [distance |-> None, speed |-> None],
     frames_left |-> MaxServerFrames, faults_left |-> MaxServerFaults]

\* The threads of script prog are about to start; every lock is free.
Script(prog) ==
    /\ program = prog
    /\ lock_holder = [l \in Locks |-> "free"]
    /\ threads = [t \in Threads |-> Idle]

WebInit ==
    /\ WebStart
    /\ Script("none")
    /\ webserver = FreshServer
    /\ doppler = NoDoppler

\* A fresh process in front of a device that delivers MaxFrames frames.
AcquisitionInit ==
    /\ InitProgram
    /\ data_history = <<>>
    /\ scene = Frames
    /\ frames_left = MaxFrames

Init ==
    /\ AcquisitionInit
    /\ WebInit

\* ------------------------------------------------------------------------
\* run_radar_loop
\* ------------------------------------------------------------------------
\* with state_lock: the checkpoint at the top of the loop
CheckReconfigure ==
    /\ pc = "top"
    /\ UNCHANGED <<sample, frame_contents, fed, scene, web>>
    /\ device_call' = IF shared_state.reconfigure /\ device.state # "None"
                      THEN DeviceCall("stop_acquisition", "state_lock")
                      ELSE device_call
    /\ \E stop_ok \in IF shared_state.reconfigure /\ device.state # "None"
                      THEN Outcomes ELSE {TRUE} :
        /\ IF shared_state.reconfigure
           THEN /\ device' = NoDevice
                /\ shared_state' = [shared_state EXCEPT !.reconfigure = FALSE]
                /\ stats' = reset_stats
                /\ sector_states' = NoSectors
                /\ teardown' = IF device.state = "None" THEN "none"
                               ELSE IF stop_ok THEN "stopped" ELSE "stop_failed"
                /\ faults_left' = IF stop_ok THEN faults_left ELSE faults_left - 1
                /\ pc' = "connect"
           ELSE /\ UNCHANGED <<device, shared_state, stats, sector_states,
                               teardown, faults_left>>
                /\ pc' = IF device.state = "None" THEN "connect" ELSE "frame"
    /\ UNCHANGED <<data_history, algo, smoothed_distance, smoothed_speed,
                   frate, range_key, num_chirps, data_payload, published,
                   warning, applied, inflight, last_msg, chirp_duration, inbox,
                   frames_left, msgs_left>>

\* device = DeviceFmcw(), then the configuration is read under state_lock
Connect ==
    /\ pc = "connect"
    /\ UNCHANGED <<sample, frame_contents, fed, scene, web>>
    /\ device_call' = DeviceCall("DeviceFmcw", "none")
    /\ \E ok \in Outcomes :
        IF ok
        THEN /\ device' = [NoDevice EXCEPT !.state = "open"]
             /\ frate' = shared_state.frate
             /\ range_key' = shared_state.range_key
             /\ num_chirps' = shared_state.num_chirps
             /\ applied' = [range_key |-> shared_state.range_key,
                            frate |-> shared_state.frate,
                            num_chirps |-> shared_state.num_chirps,
                            sensitivity |-> shared_state.peak_threshold]
             /\ pc' = "configure"
             /\ UNCHANGED faults_left
        ELSE /\ pc' = Raise("open")
             /\ faults_left' = faults_left - 1
             /\ UNCHANGED <<device, frate, range_key, num_chirps, applied>>
    /\ UNCHANGED <<shared_state, data_history, sector_states, algo,
                   smoothed_distance, smoothed_speed, stats, data_payload,
                   published, warning, teardown, inflight, last_msg,
                   chirp_duration, inbox, frames_left, msgs_left>>

\* The Configuring step: the metrics of the preset, the timing budget, the
\* clamp and its write-back.
Configure ==
    /\ pc = "configure"
    /\ UNCHANGED <<sample, frame_contents, fed, scene, web>>
    /\ device_call' = IF range_key \in DOMAIN RANGE_PRESETS
                      THEN DeviceCall("sequence_from_metrics", "none")
                      ELSE device_call
    /\ \E ok \in Outcomes :
        IF range_key \notin DOMAIN RANGE_PRESETS
        THEN \* KeyError
             /\ pc' = Raise("preset")
             /\ UNCHANGED <<num_chirps, warning, shared_state, faults_left>>
        ELSE IF ~ok
        THEN \* create_simple_sequence or sequence_from_metrics fails
             /\ pc' = Raise("sequence")
             /\ faults_left' = faults_left - 1
             /\ UNCHANGED <<num_chirps, warning, shared_state>>
        ELSE IF frate = 0
        THEN \* ZeroDivisionError
             /\ pc' = Raise("budget")
             /\ UNCHANGED <<num_chirps, warning, shared_state, faults_left>>
        ELSE IF BudgetExceeded(num_chirps, frate, chirp_duration[range_key])
        THEN /\ num_chirps' = ClampedChirps(frate, chirp_duration[range_key])
             /\ warning' = [issued |-> TRUE, original_chirps |-> num_chirps,
                            num_chirps |-> num_chirps']
             /\ shared_state' = [shared_state EXCEPT !.num_chirps = num_chirps']
             /\ pc' = "start"
             /\ UNCHANGED faults_left
        ELSE /\ warning' = NoWarning
             /\ pc' = "start"
             /\ UNCHANGED <<num_chirps, shared_state, faults_left>>
    /\ UNCHANGED <<data_history, sector_states, device, algo,
                   smoothed_distance, smoothed_speed, stats, frate, range_key,
                   data_payload, published, applied, teardown, inflight,
                   last_msg, chirp_duration, inbox, frames_left, msgs_left>>

\* A variant that builds the processor only once and keeps it afterwards.
StartAcquisitionKeepsAlgo ==
    /\ pc = "start"
    /\ UNCHANGED <<sample, frame_contents, fed, scene, web>>
    /\ \E ok \in Outcomes :
        IF ~ok
        THEN /\ pc' = Raise("start")
             /\ faults_left' = faults_left - 1
             /\ device_call' = DeviceCall("set_acquisition_sequence", "none")
             /\ UNCHANGED <<device, algo>>
        ELSE /\ device_call' = DeviceCall("start_acquisition", "none")
             /\ device' = [state |-> "acquiring", range_key |-> range_key,
                           frate |-> frate, num_chirps |-> num_chirps]
             /\ IF num_chirps < 0
                THEN /\ pc' = Raise("algo")
                     /\ UNCHANGED algo
                ELSE /\ algo' = IF algo = NoAlgo
                                THEN [num_chirps_per_frame |-> num_chirps,
                                      range_resolution |-> RANGE_PRESETS[range_key][2]]
                                ELSE algo
                     /\ pc' = "frame"
             /\ UNCHANGED faults_left
    /\ UNCHANGED <<shared_state, data_history, sector_states,
                   smoothed_distance, smoothed_speed, stats, frate, range_key,
                   num_chirps, data_payload, published, warning, applied,
                   teardown, inflight, last_msg, chirp_duration, inbox, frames_left,
                   msgs_left>>

\* The sequence is written to the device, the stream started, the processor
\* built.
StartAcquisition ==
    /\ pc = "start"
    /\ UNCHANGED <<sample, frame_contents, fed, scene, web>>
    /\ \E ok \in Outcomes :
        IF ~ok
        THEN \* set_acquisition_sequence or start_acquisition fails
             /\ pc' = Raise("start")
             /\ faults_left' = faults_left - 1
             /\ device_call' = DeviceCall("set_acquisition_sequence", "none")
             /\ UNCHANGED <<device, algo>>
        ELSE /\ device_call' = DeviceCall("start_acquisition", "none")
             /\ device' = [state |-> "acquiring", range_key |-> range_key,
                           frate |-> frate, num_chirps |-> num_chirps]
             /\ IF num_chirps < 0
                THEN \* blackmanharris of a negative length
                     /\ pc' = Raise("algo")
                     /\ UNCHANGED algo
                ELSE /\ algo' = [num_chirps_per_frame |-> num_chirps,
                                 range_resolution |-> RANGE_PRESETS[range_key][2]]
                     /\ pc' = "frame"
             /\ UNCHANGED faults_left
    /\ UNCHANGED <<shared_state, data_history, sector_states,
                   smoothed_distance, smoothed_speed, stats, frate, range_key,
                   num_chirps, data_payload, published, warning, applied,
                   teardown, inflight, last_msg, chirp_duration, inbox, frames_left,
                   msgs_left>>

\* get_next_frame, compute_doppler_map, the threshold read under state_lock,
\* then smoothing, classification and statistics.
ProcessFrame ==
    /\ pc = "frame"
    /\ UNCHANGED <<scene, web>>
    /\ device_call' = DeviceCall("get_next_frame", "none")
    /\ \E ok \in Outcomes, frame \in Scene :
        IF ~ok
        THEN \* get_next_frame fails
             /\ pc' = Raise("frame")
             /\ faults_left' = faults_left - 1
             /\ inflight' = FALSE
             /\ UNCHANGED <<frames_left, smoothed_distance, smoothed_speed,
                            stats, data_payload, sample, frame_contents, fed>>
        ELSE /\ frames_left # 0
             /\ frames_left' = IF frames_left = Endless THEN Endless
                               ELSE frames_left - 1
             /\ frame_contents' = frame
             /\ UNCHANGED <<faults_left, inflight>>
             /\ IF ComputeRaises(frame, algo)
                THEN \* ValueError
                     /\ pc' = Raise("compute")
                     /\ UNCHANGED <<smoothed_distance, smoothed_speed, stats,
                                    data_payload, sample, fed>>
                ELSE /\ sample' = compute_doppler_map(frame, algo)
                     /\ pc' = "record"
                     /\ IF IsTarget(sample'.peak, shared_state.peak_threshold)
                        THEN /\ smoothed_distance' =
                                    Smooth(sample'.distance, smoothed_distance)
                             /\ smoothed_speed' =
                                    Smooth(sample'.speed, smoothed_speed)
                             /\ stats' = UpdateStats(stats, smoothed_distance',
                                             smoothed_speed', sample'.peak)
                             /\ data_payload' =
                                    Payload("connected", smoothed_distance',
                                        smoothed_speed',
                                        Classify(smoothed_speed'),
                                        sample'.peak, stats')
                             /\ fed' = Feed(IF IsNone(smoothed_distance)
                                            THEN NoFed ELSE fed, sample')
                        ELSE /\ data_payload' =
                                    Payload("connected", Zero, Zero, "---",
                                        Zero, stats)
                             /\ UNCHANGED <<smoothed_distance,
                                            smoothed_speed, stats, fed>>
    /\ UNCHANGED <<shared_state, data_history, sector_states, device, algo,
                   frate, range_key, num_chirps, published, warning, applied,
                   teardown, last_msg, chirp_duration, inbox, msgs_left>>

\* with state_lock: the history and sector update; then broadcast_sync
PublishReading ==
    /\ pc = "record"
    /\ UNCHANGED <<sample, frame_contents, fed, device_call, web>>
    /\ IF data_payload.direction # "---"
       THEN /\ data_history' = HistoryAppend(data_history,
                    [dist |-> data_payload.distance_cm,
                     dir |-> data_payload.direction])
            /\ IF shared_state.range_key \notin DOMAIN RANGE_PRESETS
               THEN \* KeyError
                    /\ pc' = Raise("sector")
                    /\ UNCHANGED <<sector_states, published, inflight>>
               ELSE LET sector_index ==
                            SectorIndex(data_payload.distance_cm,
                                RANGE_PRESETS[shared_state.range_key][1])
                    IN  /\ sector_states' =
                                IF 0 <= sector_index /\ sector_index < NumSectors
                                THEN [sector_states EXCEPT ![sector_index] =
                                        CssDirection(data_payload.direction)]
                                ELSE sector_states
                        /\ published' = data_payload
                        /\ inflight' = FALSE
                        /\ pc' = "top"
       ELSE /\ data_history' = HistoryAppend(data_history,
                    [dist |-> Zero, dir |-> "---"])
            /\ published' = data_payload
            /\ inflight' = FALSE
            /\ pc' = "top"
            /\ UNCHANGED sector_states
    /\ UNCHANGED <<shared_state, device, algo, smoothed_distance,
                   smoothed_speed, stats, frate, range_key, num_chirps,
                   data_payload, warning, applied, teardown, last_msg,
                   environment>>

\* A variant of the except branch that keeps the smoothing memory.
HandleFaultKeepsSmoothing ==
    /\ pc = "except"
    /\ fed' = NoFed
    /\ UNCHANGED <<sample, frame_contents, device_call, web>>
    /\ published' = WaitingPayload
    /\ UNCHANGED <<smoothed_distance, smoothed_speed>>
    /\ device' = NoDevice
    /\ stats' = reset_stats
    /\ sector_states' = NoSectors
    /\ teardown' = IF device.state = "None" THEN teardown ELSE "dropped"
    /\ inflight' = FALSE
    /\ pc' = "backoff"
    /\ UNCHANGED <<shared_state, data_history, algo, frate, range_key,
                   num_chirps, data_payload, warning, applied, last_msg,
                   environment>>

\* except Exception: publish, drop the handle, reset
HandleFault ==
    /\ pc = "except"
    /\ fed' = NoFed
    /\ UNCHANGED <<sample, frame_contents, device_call, web>>
    /\ published' = WaitingPayload
    /\ smoothed_distance' = None
    /\ smoothed_speed' = None
    /\ device' = NoDevice
    /\ stats' = reset_stats
    /\ sector_states' = NoSectors
    /\ teardown' = IF device.state = "None" THEN teardown ELSE "dropped"
    /\ inflight' = FALSE
    /\ pc' = "backoff"
    /\ UNCHANGED <<shared_state, data_history, algo, frate, range_key,
                   num_chirps, data_payload, warning, applied, last_msg,
                   environment>>

\* time.sleep(3)
Backoff ==
    /\ pc = "backoff"
    /\ pc' = "top"
    /\ UNCHANGED <<shared_state, data_history, sector_states, device, algo,
                   smoothed_distance, smoothed_speed, stats, frate, range_key,
                   num_chirps, sample, frame_contents, data_payload, observed,
                   environment, web>>

\* ------------------------------------------------------------------------
\* websocket_endpoint: one received message, handled under state_lock
\* ------------------------------------------------------------------------
\* The dictionary after the message; a field the message lacks raises
\* KeyError where it is first subscripted, and the handler ends there.
HandleMessage(data, s0) ==
    LET ch1 == data.range_key # s0.range_key
        err1 == ch1 /\ data.range_key = AbsentStr
        s1 == IF ch1 /\ ~err1
              THEN [s0 EXCEPT !.range_key = data.range_key] ELSE s0
        ch2 == ~err1 /\ data.frate # s1.frate
        err2 == err1 \/ (ch2 /\ data.frate = AbsentInt)
        s2 == IF ch2 /\ ~err2 THEN [s1 EXCEPT !.frate = data.frate] ELSE s1
        ch3 == ~err2 /\ data.num_chirps # s2.num_chirps
        err3 == err2 \/ (ch3 /\ data.num_chirps = AbsentInt)
        s3 == IF ch3 /\ ~err3
              THEN [s2 EXCEPT !.num_chirps = data.num_chirps] ELSE s2
        s4 == IF ~err3 /\ data.sensitivity # AbsentInt
              THEN [s3 EXCEPT !.peak_threshold = data.sensitivity] ELSE s3
        reconfigure_needed == ~err3 /\ (ch1 \/ ch2 \/ ch3)
    IN  IF reconfigure_needed THEN [s4 EXCEPT !.reconfigure = TRUE] ELSE s4

\* Whether the message made the handler ask for a reconfiguration.
Requests(data, s0) ==
    /\ data.range_key # AbsentStr
    /\ data.frate # AbsentInt
    /\ data.num_chirps # AbsentInt
    /\ \/ data.range_key # s0.range_key
       \/ data.frate # s0.frate
       \/ data.num_chirps # s0.num_chirps

\* A variant of the handler that also clears the sectors.
websocket_endpoint_clears_sectors ==
    /\ msgs_left > 0
    /\ UNCHANGED <<fed, device_call, scene, web>>
    /\ \E data \in inbox :
        /\ shared_state' = HandleMessage(data, shared_state)
        /\ last_msg' = IF Requests(data, shared_state) THEN data ELSE last_msg
        /\ inflight' = IF /\ Requests(data, shared_state)
                          /\ pc \in {"frame", "record"}
                       THEN TRUE ELSE inflight
    /\ msgs_left' = msgs_left - 1
    /\ sector_states' = NoSectors
    /\ UNCHANGED <<data_history, controller, published,
                   warning, applied, teardown, chirp_duration, inbox, frames_left,
                   faults_left>>

websocket_endpoint ==
    /\ msgs_left > 0
    /\ UNCHANGED <<fed, device_call, scene, web>>
    /\ \E data \in inbox :
        /\ shared_state' = HandleMessage(data, shared_state)
        /\ last_msg' = IF Requests(data, shared_state) THEN data ELSE last_msg
        /\ inflight' = IF /\ Requests(data, shared_state)
                          /\ pc \in {"frame", "record"}
                       THEN TRUE ELSE inflight
    /\ msgs_left' = msgs_left - 1
    /\ UNCHANGED <<data_history, sector_states, controller, published,
                   warning, applied, teardown, chirp_duration, inbox, frames_left,
                   faults_left>>

\* ------------------------------------------------------------------------
\* Specifications
\* ------------------------------------------------------------------------
Controller ==
    \/ CheckReconfigure
    \/ Connect
    \/ Configure
    \/ StartAcquisition
    \/ ProcessFrame
    \/ PublishReading
    \/ HandleFault
    \/ Backoff

Next ==
    \/ Controller
    \/ websocket_endpoint

Spec == Init /\ [][Next]_vars

\* The same process with clients that omit keys, or that repeat a request.
ClientInit ==
    /\ ProgramStart
    /\ inbox \in {PartialMsgs, RepeatingMsgs}
    /\ WebInit
    /\ data_history = <<>>
    /\ scene = Frames
    /\ frames_left = MaxFrames

ClientSpec == ClientInit /\ [][Next]_vars

\* A long-running process: the ring is full of no-target entries, the scene
\* is empty and the device never runs out of frames.  The acquisition thread
\* always gets to run; no client has to send anything.
FairInit ==
    /\ InitProgram
    /\ WebInit
    /\ scene = {EmptyFrame}
    /\ data_history = [i \in 1 .. HistoryMaxLen |-> [dist |-> Zero, dir |-> "---"]]
    /\ frames_left = Endless

FairSpec == FairInit /\ [][Next]_vars /\ WF_vars(Controller)

\* The acquisition thread alone, in front of the richer scene: no client
\* sends anything after the range was chosen; the ring is empty or holds 199
\* entries left by earlier cycles.
CycleStart ==
    /\ WebInit
    /\ FreshController
    /\ \E k \in DOMAIN RANGE_PRESETS :
            shared_state = [frate |-> DEFAULT_FRAME_RATE,
                            range_key |-> k,
                            peak_threshold |-> DEFAULT_PEAK_THRESHOLD,
                            num_chirps |-> DEFAULT_NUM_CHIRPS,
                            reconfigure |-> TRUE]
    /\ data_history \in
            { <<>>,
              [i \in 1 .. HistoryMaxLen - 1 |->
                    IF i % 2 = 1 THEN [dist |-> Zero, dir |-> "---"]
                    ELSE [dist |-> Rat(100, 1), dir |-> "Staticky"]] }
    /\ chirp_duration = [k \in DOMAIN RANGE_PRESETS |-> FallbackChirpDurationUs]
    /\ frames_left = MaxCycleFrames
    /\ faults_left = MaxFaults
    /\ msgs_left = 0
    /\ inbox = Msgs

CycleInit == CycleStart /\ scene = CycleFrames

CycleSpec == CycleInit /\ [][Controller]_vars

\* The same thread in front of a test bench that also feeds synthetic and
\* misshapen frames.
ProbeInit == CycleStart /\ scene = ProbeFrames

ProbeSpec == ProbeInit /\ [][Controller]_vars

\* A fresh process in front of a target that stands still at one metre for
\* SteadyRun frames, with an odd number of chirps so that the speed axis has
\* a point 0; nothing fails and no client sends anything.
SteadyInit ==
    /\ WebInit
    /\ FreshController
    /\ shared_state = [frate |-> DEFAULT_FRAME_RATE,
                       range_key |-> DEFAULT_RANGE_KEY,
                       peak_threshold |-> DEFAULT_PEAK_THRESHOLD,
                       num_chirps |-> DEFAULT_NUM_CHIRPS + 1,
                       reconfigure |-> TRUE]
    /\ data_history \in
            { <<>>,
              [i \in 1 .. HistoryMaxLen - 1 |-> [dist |-> Zero, dir |-> "---"]] }
    /\ chirp_duration = [k \in DOMAIN RANGE_PRESETS |-> FallbackChirpDurationUs]
    /\ scene = SteadyFrames
    /\ frames_left = SteadyRun
    /\ faults_left = 0
    /\ msgs_left = 0
    /\ inbox = Msgs

SteadyNext ==
    \/ CheckReconfigure
    \/ Connect
    \/ Configure
    \/ StartAcquisition
    \/ ProcessFrame
    \/ PublishReading

SteadySpec == SteadyInit /\ [][SteadyNext]_vars

\* ------------------------------------------------------------------------
\* src/web.py: the acquisition thread, the watchdog and the handler
\* ------------------------------------------------------------------------
\* What a client of web.py sends; the handler reads range_key and frate.
WebMsgs ==
    { [range_key |-> "3m", frate |-> 20],
      [range_key |-> "bad", frate |-> 20] }

WebOutcomes == IF web_faults_left > 0 THEN {TRUE, FALSE} ELSE {TRUE}

\* radar_thread.is_alive()
Alive == radar_pc \in {"open", "loop", "frame"}

\* A variant that restarts as soon as the timeout is reached.
ExpiredAtTimeout(age) == age >= WATCHDOG_TIMEOUT_S

\* time_since_last_frame.total_seconds() > WATCHDOG_TIMEOUT_S
Expired(age) == age > WATCHDOG_TIMEOUT_S

\* with DeviceFmcw() as device: the preset, the sequence, start_acquisition
RadarOpen ==
    /\ ~restarted
    /\ radar_pc = "open"
    /\ \E ok \in WebOutcomes :
        IF radar_args.range_key \notin DOMAIN RANGE_PRESETS
        THEN \* KeyError: the except branch, then the thread returns
             /\ radar_pc' = "failed"
             /\ UNCHANGED web_faults_left
        ELSE IF ~ok
        THEN /\ radar_pc' = "failed"
             /\ web_faults_left' = web_faults_left - 1
        ELSE /\ radar_pc' = "loop"
             /\ UNCHANGED web_faults_left
    /\ UNCHANGED <<acquisition, others, now, last_frame_time, marker_writer,
                   last_success, watchdog_due, restarted, radar_args,
                   handler_pc, handler_args, handler_since, stop_radar_thread, orphans,
                   web_msgs_left>>

\* while not stop_radar_thread.is_set()
RadarLoopCheck ==
    /\ ~restarted
    /\ radar_pc = "loop"
    /\ radar_pc' = IF stop_radar_thread THEN "stopped" ELSE "frame"
    /\ UNCHANGED <<acquisition, others, now, last_frame_time, marker_writer,
                   last_success, watchdog_due, restarted, radar_args,
                   handler_pc, handler_args, handler_since, stop_radar_thread, orphans,
                   web_msgs_left, web_faults_left>>

\* get_next_frame returns or raises; a frame updates the marker under
\* watchdog_lock.  A stalled frame source is this step not being taken.
RadarFrame ==
    /\ ~restarted
    /\ radar_pc = "frame"
    /\ \E ok \in WebOutcomes :
        IF ok
        THEN /\ last_frame_time' = now
             /\ marker_writer' = [by |-> "run_radar_loop", lock |-> "watchdog_lock"]
             /\ last_success' = now
             /\ radar_pc' = "loop"
             /\ UNCHANGED web_faults_left
        ELSE /\ radar_pc' = "failed"
             /\ web_faults_left' = web_faults_left - 1
             /\ UNCHANGED <<last_frame_time, marker_writer, last_success>>
    /\ UNCHANGED <<acquisition, others, now, watchdog_due, restarted, radar_args,
                   handler_pc, handler_args, handler_since, stop_radar_thread, orphans,
                   web_msgs_left>>

\* A thread the handler stopped waiting for gets its frame after all, then
\* tests the Event.
OrphanFrame ==
    /\ ~restarted
    /\ orphans > 0
    /\ last_frame_time' = now
    /\ marker_writer' = [by |-> "run_radar_loop", lock |-> "watchdog_lock"]
    /\ last_success' = now
    /\ orphans' = IF stop_radar_thread THEN orphans - 1 ELSE orphans
    /\ UNCHANGED <<acquisition, others, now, watchdog_due, restarted, radar_pc,
                   radar_args, handler_pc, handler_args, handler_since, stop_radar_thread,
                   web_msgs_left, web_faults_left>>

\* get_next_frame raises in such a thread: it returns.
OrphanFails ==
    /\ ~restarted
    /\ orphans > 0
    /\ orphans' = orphans - 1
    /\ UNCHANGED <<acquisition, others, now, last_frame_time, marker_writer,
                   last_success, watchdog_due, restarted, radar_pc,
                   radar_args, handler_pc, handler_args, handler_since, stop_radar_thread,
                   web_msgs_left, web_faults_left>>

\* The end of the watchdog's sleep: the marker is read under watchdog_lock
\* and compared; os.execv if it is too old.
WatchdogTick ==
    /\ ~restarted
    /\ now = watchdog_due
    /\ IF Expired(now - last_frame_time)
       THEN /\ restarted' = TRUE
            /\ UNCHANGED watchdog_due
       ELSE /\ watchdog_due' = now + WATCHDOG_TIMEOUT_S \div 2
            /\ UNCHANGED restarted
    /\ UNCHANGED <<acquisition, others, now, last_frame_time, marker_writer,
                   last_success, radar_pc, radar_args, handler_pc,
                   handler_args, handler_since, stop_radar_thread, orphans, web_msgs_left,
                   web_faults_left>>

\* One second passes; the watchdog wakes when its sleep is over, and the
\* handler's join(timeout=2) and sleep(0.5) are over within HandlerMaxS.
Tick ==
    /\ ~restarted
    /\ now < MaxTime
    /\ now < watchdog_due
    /\ handler_pc = "joined" => now + 1 - handler_since < HandlerMaxS
    /\ now' = now + 1
    /\ UNCHANGED <<acquisition, others, last_frame_time, marker_writer, last_success,
                   watchdog_due, restarted, radar_pc, radar_args, handler_pc,
                   handler_args, handler_since, stop_radar_thread, orphans, web_msgs_left,
                   web_faults_left>>

\* receive_json, then under thread_lock: the Event is set if the thread is
\* alive, and join(timeout=2) begins.
WebReceive ==
    /\ ~restarted
    /\ handler_pc = "idle"
    /\ web_msgs_left > 0
    /\ \E data \in WebMsgs : handler_args' = data
    /\ handler_since' = now
    /\ stop_radar_thread' = IF Alive THEN TRUE ELSE stop_radar_thread
    /\ handler_pc' = "joined"
    /\ web_msgs_left' = web_msgs_left - 1
    /\ UNCHANGED <<acquisition, others, now, last_frame_time, marker_writer,
                   last_success, watchdog_due, restarted, radar_pc,
                   radar_args, orphans, web_faults_left>>

\* join has returned (a thread blocked in a device call is left behind);
\* the marker is set to now, the Event cleared, a new thread started.
WebRestart ==
    /\ ~restarted
    /\ handler_pc = "joined"
    /\ radar_pc # "loop"
    /\ orphans' = IF Alive THEN orphans + 1 ELSE orphans
    /\ last_frame_time' = now
    /\ marker_writer' = [by |-> "websocket_endpoint", lock |-> "thread_lock"]
    /\ stop_radar_thread' = FALSE
    /\ radar_args' = handler_args
    /\ radar_pc' = "open"
    /\ handler_pc' = "idle"
    /\ handler_since' = 0
    /\ UNCHANGED <<acquisition, others, now, last_success, watchdog_due, restarted,
                   handler_args, web_msgs_left, web_faults_left>>

WebNext ==
    \/ RadarOpen
    \/ RadarLoopCheck
    \/ RadarFrame
    \/ OrphanFrame
    \/ OrphanFails
    \/ WatchdogTick
    \/ Tick
    \/ WebReceive
    \/ WebRestart

\* ------------------------------------------------------------------------
\* src/web.py: the handler coroutines of several clients
\* ------------------------------------------------------------------------
\* The rest of the with block after the broadcast: sleep(0.5), the marker,
\* the Event cleared, the new thread started, thread_lock released.
LoopFinish(c) ==
    /\ orphans' = IF Alive THEN orphans + 1 ELSE orphans
    /\ last_frame_time' = now
    /\ marker_writer' = [by |-> "websocket_endpoint", lock |-> "thread_lock"]
    /\ stop_radar_thread' = FALSE
    /\ radar_args' = coro[c].args
    /\ radar_pc' = "open"
    /\ thread_lock' = "free"
    /\ coro' = [coro EXCEPT ![c].at = "receive"]
    /\ loop_thread' = "running"

\* receive_json returns in the coroutine of client c, which then enters
\* 'with thread_lock': threading.Lock.acquire blocks the calling thread, the
\* thread of the event loop, while another coroutine holds the lock.
LoopReceive(c) ==
    /\ ~restarted
    /\ loop_thread = "running"
    /\ coro[c].at = "receive"
    /\ loop_msgs_left[c] > 0
    /\ loop_msgs_left' = [loop_msgs_left EXCEPT ![c] = @ - 1]
    /\ \E data \in WebMsgs :
        IF thread_lock # "free"
        THEN /\ loop_thread' = "blocked"
             /\ coro' = [coro EXCEPT ![c] = [at |-> "acquire", args |-> data]]
             /\ UNCHANGED <<thread_lock, stop_radar_thread>>
        ELSE /\ thread_lock' = c
             /\ stop_radar_thread' = IF Alive THEN TRUE ELSE stop_radar_thread
             /\ coro' = [coro EXCEPT ![c] = [at |-> "join", args |-> data]]
             /\ loop_thread' = "joining"
    /\ UNCHANGED <<acquisition, locking, webserver, doppler, now, last_frame_time, marker_writer,
                   last_success, watchdog_due, restarted, radar_pc,
                   radar_args, handler_pc, handler_args, handler_since,
                   orphans, web_msgs_left, web_faults_left>>

\* join(timeout=2) has returned; 'await manager.broadcast' either gives the
\* event loop to other coroutines or completes at once.
LoopJoined(c) ==
    /\ ~restarted
    /\ loop_thread = "joining"
    /\ coro[c].at = "join"
    /\ radar_pc # "loop"
    /\ \E suspends \in BOOLEAN :
        IF suspends
        THEN /\ coro' = [coro EXCEPT ![c].at = "broadcast"]
             /\ loop_thread' = "running"
             /\ UNCHANGED <<orphans, last_frame_time, marker_writer,
                            stop_radar_thread, radar_args, radar_pc,
                            thread_lock>>
        ELSE LoopFinish(c)
    /\ UNCHANGED <<acquisition, locking, webserver, doppler, now, last_success, watchdog_due, restarted,
                   handler_pc, handler_args, handler_since, loop_msgs_left,
                   web_msgs_left, web_faults_left>>

\* The event loop resumes the coroutine that awaited the broadcast.
LoopResume(c) ==
    /\ ~restarted
    /\ loop_thread = "running"
    /\ coro[c].at = "broadcast"
    /\ LoopFinish(c)
    /\ UNCHANGED <<acquisition, locking, webserver, doppler, now, last_success, watchdog_due, restarted,
                   handler_pc, handler_args, handler_since, loop_msgs_left,
                   web_msgs_left, web_faults_left>>

LoopNext ==
    \/ \E c \in Clients : LoopReceive(c)
    \/ \E c \in Clients : LoopJoined(c)
    \/ \E c \in Clients : LoopResume(c)
    \/ RadarOpen
    \/ RadarLoopCheck
    \/ RadarFrame
    \/ OrphanFrame
    \/ OrphanFails

\* ------------------------------------------------------------------------
\* src/helper.py and src/dop_me.py: DopplerAlgo and the printed direction
\* ------------------------------------------------------------------------
\* int(2 * max_speed_m_s / speed_resolution_m_s)
num_speed_bins == 2 * MaxSpeed * SpeedResolutionInv

\* np.linspace(-max_speed_m_s, max_speed_m_s, num_speed_bins)
speed_axis == [d \in 0 .. num_speed_bins - 1 |-> SpeedAxis(d, num_speed_bins)]

\* abs(speed_m_s) < metrics.speed_resolution_m_s, then speed_m_s > 0
DopMeClassify(speed) ==
    IF RatLess(RatAbs(speed), Rat(1, SpeedResolutionInv)) THEN "Static"
    ELSE IF RatLess(Zero, speed) THEN "Approaching"
    ELSE "Receding"

\* compute_doppler_map: the peak cell is looked up in the two axes; an index
\* outside an axis raises IndexError, which nothing catches.
DopplerCompute ==
    /\ doppler.at = "frame"
    /\ doppler' =
            IF doppler.doppler_idx \in DOMAIN speed_axis
            THEN [doppler EXCEPT
                    !.at = "computed",
                    !.distance = RangeAxis(doppler.range_idx,
                                           ServerRangeResolutionCm),
                    !.speed = speed_axis[doppler.doppler_idx]]
            ELSE [doppler EXCEPT !.at = "computed", !.raised = "IndexError"]
    /\ UNCHANGED <<acquisition, now, last_frame_time, marker_writer,
                   last_success, watchdog_due, restarted, radar_pc,
                   radar_args, handler_pc, handler_args, handler_since,
                   stop_radar_thread, orphans, web_msgs_left,
                   web_faults_left, event_loop, locking, webserver>>

\* The main loop of dop_me.py classifies the speed it got and prints it.
DopMePrint ==
    /\ doppler.file = "dop_me.py"
    /\ doppler.at = "computed"
    /\ doppler.raised = "none"
    /\ doppler' = [doppler EXCEPT !.at = "printed",
                                  !.direction = DopMeClassify(doppler.speed)]
    /\ UNCHANGED <<acquisition, now, last_frame_time, marker_writer,
                   last_success, watchdog_due, restarted, radar_pc,
                   radar_args, handler_pc, handler_args, handler_since,
                   stop_radar_thread, orphans, web_msgs_left,
                   web_faults_left, event_loop, locking, webserver>>

DopplerNext ==
    \/ DopplerCompute
    \/ DopMePrint

\* Either file, every number of chirps, every position of the peak.
DopplerInit ==
    /\ AcquisitionInit
    /\ chirp_duration = [k \in DOMAIN RANGE_PRESETS |-> FallbackChirpDurationUs]
    /\ WebStart
    /\ Script("none")
    /\ webserver = FreshServer
    /\ \E file \in {"helper.py", "dop_me.py"}, chirps \in DopplerChirps :
        \E doppler_idx \in 0 .. chirps - 1,
           range_idx \in {0, NumSamples \div 4, NumSamples \div 2 - 1} :
            doppler = DopplerFrame(file, chirps, doppler_idx, range_idx)

DopplerSpec == DopplerInit /\ [][DopplerNext]_vars

\* ------------------------------------------------------------------------
\* src/radar_webserver.py: the measurement thread
\* ------------------------------------------------------------------------
\* abs(smoothed_speed) < metrics.speed_resolution_m_s, then the sign
ServerClassify(speed) ==
    IF RatLess(RatAbs(speed), Rat(1, SpeedResolutionInv)) THEN "static"
    ELSE IF RatLess(speed, Zero) THEN "approaching"
    ELSE "receding"

\* The two event tests; the second overwrites the first.
ServerEvent(dist) ==
    IF /\ ~RatLess(dist, Rat(RANGE_START_CM, 1))
       /\ ~RatLess(Rat(RANGE_END_CM, 1), dist)
    THEN "movement"
    ELSE IF ~RatLess(Rat(DISTANCE_TOLERANCE_CM, 1),
                     RatAbs(Rat(dist.n - FIXED_DISTANCE_CM * dist.d, dist.d)))
    THEN "fixed"
    ELSE "none"

\* One pass of the inner loop: a frame, its peak, the smoothing, the reading.
ServerFrame ==
    /\ webserver.frames_left > 0
    /\ \E frame \in ServerFrames :
        LET smp == compute_doppler_map(frame, ServerAlgo)
            valid == IsTarget(smp.peak, PEAK_THRESHOLD)
            dist == IF valid
                    THEN Smooth(smp.distance, webserver.smoothed_distance)
                    ELSE Zero
            speed == IF valid
                     THEN Smooth(smp.speed, webserver.smoothed_speed)
                     ELSE Zero
            dir == IF valid THEN ServerClassify(speed) ELSE "---"
        IN  webserver' =
                [webserver EXCEPT
                    !.sample = smp,
                    !.smoothed_distance = dist,
                    !.smoothed_speed = speed,
                    !.direction = dir,
                    !.published =
                        [status |-> "connected", distance_cm |-> dist,
                         speed_ms |-> speed, direction |-> dir,
                         peak |-> IF valid THEN smp.peak ELSE Zero,
                         event |-> IF valid THEN ServerEvent(dist)
                                   ELSE "none"],
                    !.carried = IF valid
                                THEN [distance |-> dist, speed |-> speed]
                                ELSE @,
                    !.frames_left = @ - 1]
    /\ UNCHANGED <<acquisition, now, last_frame_time, marker_writer,
                   last_success, watchdog_due, restarted, radar_pc,
                   radar_args, handler_pc, handler_args, handler_since,
                   stop_radar_thread, orphans, web_msgs_left,
                   web_faults_left, event_loop, locking, doppler>>

\* A device call raises: 'waiting' is sent, the smoothing memory is unset
\* and the device is opened again after 5 s.
ServerFault ==
    /\ webserver.faults_left > 0
    /\ webserver' =
            [webserver EXCEPT
                !.smoothed_distance = None,
                !.smoothed_speed = None,
                !.published = [@ EXCEPT !.status = "waiting"],
                !.carried = [distance |-> None, speed |-> None],
                !.faults_left = @ - 1]
    /\ UNCHANGED <<acquisition, now, last_frame_time, marker_writer,
                   last_success, watchdog_due, restarted, radar_pc,
                   radar_args, handler_pc, handler_args, handler_since,
                   stop_radar_thread, orphans, web_msgs_left,
                   web_faults_left, event_loop, locking, doppler>>

ServerNext ==
    \/ ServerFrame
    \/ ServerFault

\* ------------------------------------------------------------------------
\* src/histogram.py and src/test.py: the threads and their locks
\* ------------------------------------------------------------------------
Acquire(l) == [do |-> "acquire", what |-> l]
Release(l) == [do |-> "release", what |-> l]
Load(name) == [do |-> "load", what |-> name]

\* 'with l:' around statements that take no other lock.
With(l) == <<Acquire(l), Release(l)>>

Section(name, ops) == [section |-> name, ops |-> ops]

\* The names that the module binds at top level, as far as the sections
\* below load them.
ModuleNames(prog) ==
    IF prog = "histogram.py"
    THEN {"EMA_ALPHA", "DEFAULT_PEAK_THRESHOLD", "DEFAULT_RANGE_KEY",
          "DEFAULT_FRAME_RATE", "START_TIME", "RANGE_PRESETS",
          "FRAME_RATES_HZ", "last_frame_time", "watchdog_lock",
          "data_history", "shared_state", "state_lock"}
    ELSE {"EMA_ALPHA", "DEFAULT_PEAK_THRESHOLD", "DEFAULT_RANGE_KEY",
          "DEFAULT_FRAME_RATE", "DEFAULT_NUM_CHIRPS", "START_TIME",
          "RANGE_PRESETS", "shared_state", "state_lock"}

\* The variant in which broadcast_sync of test.py is called before the
\* 'with state_lock' block of the no-target branch is left.
SectionsBroadcastInside(prog, t) ==
    IF prog = "test.py" /\ t = "radar"
    THEN { Section("run_radar_loop:538",
                   <<Acquire("state_lock"), Acquire("state_lock"),
                     Release("state_lock"), Release("state_lock")>>) }
    ELSE {}

\* The lock operations of every stretch of code that takes a lock, per
\* script and thread, named by the line at which it starts.
Sections(prog, t) ==
    IF prog = "histogram.py"
    THEN CASE t = "radar" ->
                { Section("run_radar_loop:392", With("state_lock")),
                  Section("run_radar_loop:405", With("state_lock")),
                  Section("run_radar_loop:423", With("watchdog_lock")),
                  Section("run_radar_loop:428", With("state_lock")),
                  Section("run_radar_loop:449", With("watchdog_lock")) }
           [] t = "watchdog" ->
                { Section("watchdog_thread_func:463",
                          <<Load("WATCHDOG_TIMEOUT_S")>>
                          \o With("watchdog_lock")
                          \o <<Load("WATCHDOG_TIMEOUT_S")>>) }
           [] t = "loop" ->
                { Section("get_plot:508",
                          <<Acquire("watchdog_lock"), Acquire("state_lock"),
                            Release("state_lock"), Release("watchdog_lock")>>),
                  Section("websocket_endpoint:554", With("state_lock")) }
    ELSE CASE t = "radar" ->
                { Section("run_radar_loop:448", With("state_lock")),
                  Section("run_radar_loop:462", With("state_lock")),
                  Section("run_radar_loop:481", With("state_lock")),
                  Section("run_radar_loop:499", With("state_lock")),
                  Section("run_radar_loop:528",
                          With("state_lock") \o With("state_lock")),
                  Section("run_radar_loop:538",
                          With("state_lock") \o With("state_lock")),
                  Section("run_radar_loop:544", With("state_lock")),
                  Section("run_radar_loop:547", With("state_lock")) }
           [] t = "watchdog" -> {}
           [] t = "loop" ->
                { Section("websocket_endpoint:593", With("state_lock")) }

\* The thread goes on to the next stretch of code that takes a lock.
EnterSection(t) ==
    /\ threads[t].alive
    /\ threads[t].ops = <<>>
    /\ \E s \in Sections(program, t) :
        threads' = [threads EXCEPT ![t].section = s.section, ![t].ops = s.ops]
    /\ UNCHANGED <<acquisition, now, last_frame_time, marker_writer,
                   last_success, watchdog_due, restarted, radar_pc,
                   radar_args, handler_pc, handler_args, handler_since,
                   stop_radar_thread, orphans, web_msgs_left,
                   web_faults_left, event_loop, webserver, doppler,
                   program, lock_holder>>

\* threading.Lock.acquire returns only when the lock is free, whoever holds
\* it: the lock is not reentrant.
AcquireLock(t) ==
    /\ threads[t].alive
    /\ threads[t].ops # <<>>
    /\ Head(threads[t].ops).do = "acquire"
    /\ lock_holder[Head(threads[t].ops).what] = "free"
    /\ lock_holder' = [lock_holder EXCEPT ![Head(threads[t].ops).what] = t]
    /\ threads' = [threads EXCEPT ![t].ops = Tail(@)]
    /\ UNCHANGED <<acquisition, now, last_frame_time, marker_writer,
                   last_success, watchdog_due, restarted, radar_pc,
                   radar_args, handler_pc, handler_args, handler_since,
                   stop_radar_thread, orphans, web_msgs_left,
                   web_faults_left, event_loop, webserver, doppler,
                   program>>

\* The end of a with block.
ReleaseLock(t) ==
    /\ threads[t].alive
    /\ threads[t].ops # <<>>
    /\ Head(threads[t].ops).do = "release"
    /\ lock_holder' = [lock_holder EXCEPT ![Head(threads[t].ops).what] = "free"]
    /\ threads' = [threads EXCEPT ![t].ops = Tail(@)]
    /\ UNCHANGED <<acquisition, now, last_frame_time, marker_writer,
                   last_success, watchdog_due, restarted, radar_pc,
                   radar_args, handler_pc, handler_args, handler_since,
                   stop_radar_thread, orphans, web_msgs_left,
                   web_faults_left, event_loop, webserver, doppler,
                   program>>

\* The thread evaluates a global name outside any try: a name the module
\* never binds raises NameError, which ends the thread.
LoadName(t) ==
    /\ threads[t].alive
    /\ threads[t].ops # <<>>
    /\ Head(threads[t].ops).do = "load"
    /\ threads' = IF Head(threads[t].ops).what \in ModuleNames(program)
                  THEN [threads EXCEPT ![t].ops = Tail(@)]
                  ELSE [threads EXCEPT ![t].alive = FALSE]
    /\ UNCHANGED <<acquisition, now, last_frame_time, marker_writer,
                   last_success, watchdog_due, restarted, radar_pc,
                   radar_args, handler_pc, handler_args, handler_since,
                   stop_radar_thread, orphans, web_msgs_left,
                   web_faults_left, event_loop, webserver, doppler,
                   program, lock_holder>>

LockNext ==
    \/ \E t \in Threads : EnterSection(t)
    \/ \E t \in Threads : AcquireLock(t)
    \/ \E t \in Threads : ReleaseLock(t)
    \/ \E t \in Threads : LoadName(t)

\* Either script, every thread about to start.
LockInit ==
    /\ AcquisitionInit
    /\ chirp_duration = [k \in DOMAIN RANGE_PRESETS |-> FallbackChirpDurationUs]
    /\ WebStart
    /\ \E prog \in {"histogram.py", "test.py"} : Script(prog)
    /\ webserver = FreshServer
    /\ doppler = NoDoppler

LockSpec == LockInit /\ [][LockNext]_vars

\* The acquisition service of src/test.py stays as constructed.
WebSpecInit ==
    /\ Init
    /\ chirp_duration = [k \in DOMAIN RANGE_PRESETS |-> FallbackChirpDurationUs]

WebSpec == WebSpecInit /\ [][WebNext]_vars

\* src/radar_webserver.py in front of a device that delivers
\* MaxServerFrames frames.
ServerSpec == WebSpecInit /\ [][ServerNext]_vars

\* src/web.py with two clients; the clock stands still.
LoopSpec == WebSpecInit /\ [][LoopNext]_vars

\* ------------------------------------------------------------------------
\* Properties
\* ------------------------------------------------------------------------
LoopPcs ==
    {"top", "connect", "configure", "start", "frame", "record", "except",
     "backoff"}

Valid(config) ==
    /\ config.range_key \in DOMAIN RANGE_PRESETS
    /\ config.frate > 0

\* The chirp count the Configuring step applies for a request.
AppliedChirps(chirps, fr, dur) ==
    IF chirps * dur * fr > BudgetUs THEN BudgetUs \div (fr * dur) ELSE chirps

\* C1: every exception raised while opening the device, configuring it,
\* starting it, reading a frame or computing the Doppler map is caught in the
\* loop: the thread never leaves the loop, the handler is followed by the
\* backoff, the backoff by the checkpoint with no device handle, and that by
\* a new connection attempt, which is always possible (no retry limit).
C1_FaultsAreRecovered ==
    /\ [](pc = "connect" => ENABLED Connect)
    /\ [][ /\ pc' \in LoopPcs
           /\ (pc = "except" /\ pc' # pc) => pc' = "backoff"
           /\ (pc = "backoff" /\ pc' # pc) =>
                    (pc' = "top" /\ device'.state = "None")
           /\ (pc = "top" /\ pc' # pc /\ device'.state = "None") =>
                    pc' = "connect" ]_vars

\* A fault was handled and the thread is connecting again.
C1_Witness ==
    /\ pc = "connect"
    /\ published.status = "waiting_for_device"
    /\ faults_left < MaxFaults

\* C2: if from some point on the device does not fail and the shared
\* configuration holds a known range key and a positive frame rate, the
\* controller publishes 'connected' readings again and again.
C2_RecoveryIsLive ==
    <>[](faults_left = 0 /\ Valid(shared_state))
        => []<>(pc = "top" /\ published.status = "connected")

\* C3: the except branch publishes 'waiting_for_device', drops the handle,
\* unsets the smoothing memory, resets statistics and sectors, and leaves
\* the history and the shared configuration alone; all of that still holds
\* until the next connection attempt.
C3_FaultResets ==
    /\ []((published.status = "waiting_for_device"
                /\ pc \in {"backoff", "top", "connect"}) =>
            /\ device = NoDevice
            /\ IsNone(smoothed_distance) /\ IsNone(smoothed_speed)
            /\ IsNone(stats.min_dist_cm) /\ IsNone(stats.min_speed_ms)
            /\ IsNone(stats.min_peak)
            /\ stats.max_dist_cm = Zero /\ stats.max_speed_ms = Zero
            /\ stats.max_peak = Zero
            /\ \A i \in 0 .. NumSectors - 1 : sector_states[i] = "none")
    /\ [][(pc = "except" /\ pc' # pc) =>
            /\ pc' = "backoff"
            /\ published'.status = "waiting_for_device"
            /\ data_history' = data_history
            /\ shared_state' = shared_state]_vars

\* A fault was handled after a target had been recorded.
C3_Witness ==
    /\ pc = "backoff"
    /\ published.status = "waiting_for_device"
    /\ data_history # <<>>
    /\ data_history[1].dir # "---"

\* C4: applying a reconfiguration at the checkpoint unsets the smoothing
\* memory together with the statistics and the sectors.
C4_ReconfigureResetsSmoother ==
    [][(pc = "top" /\ shared_state.reconfigure /\ pc' # pc) =>
            /\ IsNone(smoothed_distance') /\ IsNone(smoothed_speed')
            /\ stats' = reset_stats
            /\ sector_states' = NoSectors]_vars

\* C5: a frame is thresholded and mapped to a sector with the configuration
\* its device was configured with: the sector uses the device's range, and
\* the threshold is the one read with that configuration, or a later one
\* whose range, frame rate and chirp count are those of the device.
C5_ConfigurationObservedAtomically ==
    [][ /\ (pc = "record" /\ pc' = "top" /\ data_payload.direction # "---") =>
                shared_state.range_key = device.range_key
        /\ (pc = "frame" /\ pc' = "record") =>
                \/ shared_state.peak_threshold = applied.sensitivity
                \/ /\ shared_state.range_key = device.range_key
                   /\ shared_state.frate = device.frate
                   /\ shared_state.num_chirps = device.num_chirps ]_vars

\* C6: once the controller is running with no request pending, and no device
\* call has failed, the device runs with the range and frame rate of the
\* last request and with its chirp count, clamped if it exceeds the budget.
C6_SubmittedIsApplied ==
    (/\ pc \in {"frame", "record"}
     /\ device.state = "acquiring"
     /\ ~shared_state.reconfigure
     /\ last_msg # NoMsg
     /\ Valid(last_msg)
     /\ faults_left = MaxFaults) =>
        /\ device.range_key = last_msg.range_key
        /\ device.frate = last_msg.frate
        /\ device.num_chirps =
                AppliedChirps(last_msg.num_chirps, last_msg.frate,
                    chirp_duration[last_msg.range_key])

\* C7: a request is honoured only at the checkpoint: the frame in flight
\* when it arrives is published before the handle changes; a running device
\* is released only at the checkpoint or by the fault path; at the checkpoint
\* stop_acquisition is called before the thread goes on to connect, whether
\* or not it raises.
C7_HonouredAtCheckpoint ==
    [][ /\ inflight => device' = device
        /\ (device.state = "acquiring" /\ device' # device) =>
                pc \in {"top", "except"}
        /\ (pc = "top" /\ shared_state.reconfigure /\ device.state # "None"
                /\ pc' # pc) =>
                /\ teardown' \in {"stopped", "stop_failed"}
                /\ device' = NoDevice
                /\ pc' = "connect" ]_vars

C9_SixtyFourIsClamped ==
    [][(pc = "configure" /\ pc' = "start" /\ frate = 60 /\ num_chirps = 64
            /\ chirp_duration[range_key] = FallbackChirpDurationUs) =>
            num_chirps' # 64]_vars

\* C9, amended: 64 chirps of 128 us at 60 Hz fit the budget and are applied
\* unchanged, without a warning.
C9_SixtyFourIsKept ==
    [][(pc = "configure" /\ pc' = "start" /\ frate = 60 /\ num_chirps = 64
            /\ chirp_duration[range_key] = FallbackChirpDurationUs) =>
            /\ num_chirps' = 64
            /\ ~warning'.issued
            /\ shared_state'.num_chirps = shared_state.num_chirps]_vars

\* The device runs the 60 Hz, 64 chirp request with 128 us chirps.
C9_Witness ==
    /\ device.state = "acquiring"
    /\ device.frate = 60
    /\ device.num_chirps = 64
    /\ applied.num_chirps = 64
    /\ chirp_duration[device.range_key] = FallbackChirpDurationUs

\* C10: the chirp count applied to the device and given to DopplerAlgo is at
\* least 1.
C10_AtLeastOneChirp ==
    /\ device.state = "acquiring" => device.num_chirps >= 1
    /\ algo # NoAlgo => algo.num_chirps_per_frame >= 1

\* C11: when no get_next_frame has succeeded for longer than the timeout and
\* the watchdog has had its next tick (half a timeout later at the latest),
\* the process has been restarted, whatever the clients send meanwhile.
C11_StalledSourceRestarts ==
    (now - last_success > WATCHDOG_TIMEOUT_S + WATCHDOG_TIMEOUT_S \div 2)
        => restarted

\* C12: the watchdog wakes every WATCHDOG_TIMEOUT_S / 2; the restart happens
\* only at a tick, and at a tick exactly when the marker is older than the
\* timeout; a restart never comes within a timeout of a frame, and the
\* marker never gets older than 1.5 timeouts without a restart.
C12_WatchdogRestartsOnlyWhenStale ==
    /\ [](now <= watchdog_due
            /\ watchdog_due - now <= WATCHDOG_TIMEOUT_S \div 2)
    /\ [][ /\ restarted' # restarted => now = watchdog_due
           /\ (now = watchdog_due
                    /\ <<watchdog_due, restarted>>' # <<watchdog_due, restarted>>) =>
                /\ restarted' <=> (now - last_frame_time > WATCHDOG_TIMEOUT_S)
                /\ ~restarted' =>
                        watchdog_due' = now + WATCHDOG_TIMEOUT_S \div 2 ]_vars
    /\ [](restarted => now - last_success > WATCHDOG_TIMEOUT_S)
    /\ [](~restarted =>
            2 * (now - last_frame_time) <= 3 * WATCHDOG_TIMEOUT_S)

\* The restart came exactly 1.5 timeouts after the marker's last update: the
\* tick before found the marker exactly one timeout old.
C12_Witness ==
    /\ restarted
    /\ 2 * (now - last_frame_time) = 3 * WATCHDOG_TIMEOUT_S

\* C13: the process is never restarted after the acquisition thread ended
\* on a failed device call.
C13_DeviceFaultNeverRestarts ==
    restarted => radar_pc # "failed"

\* C14: handling a websocket message leaves the published reading, the
\* statistics, the history and the sectors as they are, and shared_state
\* keeps its five entries.
C14_HandlerWritesOnlySharedState ==
    [][msgs_left' # msgs_left =>
            /\ published' = published
            /\ data_payload' = data_payload
            /\ stats' = stats
            /\ data_history' = data_history
            /\ sector_states' = sector_states
            /\ smoothed_distance' = smoothed_distance
            /\ smoothed_speed' = smoothed_speed
            /\ DOMAIN shared_state' = DOMAIN shared_state]_vars

\* A request is pending while a reading, statistics, history and a sector
\* of an earlier target are in place.
C14_Witness ==
    /\ shared_state.reconfigure
    /\ last_msg # NoMsg
    /\ published.direction # "---"
    /\ ~IsNone(stats.min_dist_cm)
    /\ data_history # <<>>
    /\ sector_states # NoSectors

\* C15: last_frame_time is written only at start-up and by the acquisition
\* loop, and the loop writes it under watchdog_lock.
C15_MarkerWrittenByLoopOnly ==
    /\ marker_writer.by \in {"lifespan", "run_radar_loop"}
    /\ marker_writer.by = "run_radar_loop" =>
            marker_writer.lock = "watchdog_lock"

\* The entry a cycle appends to the history for the reading it built.
HistoryEntry(reading) ==
    IF reading.direction # "---"
    THEN [dist |-> reading.distance_cm, dir |-> reading.direction]
    ELSE [dist |-> Zero, dir |-> "---"]

RatLeq(a, b) == ~RatLess(b, a)

\* C16: the history never holds more than 200 entries; a cycle that
\* publishes its reading appends exactly one entry for it, evicting the
\* oldest one when the ring is full and keeping the others in order; a
\* cycle that ends in the fault path appends none, and no other step
\* touches the history.
C16_HistoryRing ==
    /\ [](Len(data_history) <= HistoryMaxLen)
    /\ [][ /\ (pc = "record" /\ pc' = "top") =>
                LET e == HistoryEntry(data_payload)
                    n == Len(data_history)
                IN  IF n < HistoryMaxLen
                    THEN data_history' = data_history \o <<e>>
                    ELSE /\ Len(data_history') = HistoryMaxLen
                         /\ data_history'[HistoryMaxLen] = e
                         /\ \A i \in 1 .. HistoryMaxLen - 1 :
                                data_history'[i] = data_history[i + 1]
           /\ (pc # "except" /\ pc' = "except") =>
                data_history' = data_history
           /\ pc # "record" => data_history' = data_history ]_vars

\* C17: there are always 64 cells, each 'none', 'static', 'approaching' or
\* 'receding'; a published valid reading with smoothed distance d sets the
\* cell floor(d / max_range_cm * 64) to its direction and leaves the other
\* cells alone, or leaves all cells alone when that index is not in 0..63;
\* a no-target reading changes no cell.
C17_SectorOccupancy ==
    /\ [](/\ DOMAIN sector_states = 0 .. NumSectors - 1
          /\ \A i \in 0 .. NumSectors - 1 :
                sector_states[i] \in {"none", "static", "approaching", "receding"})
    /\ [][(pc = "record" /\ pc' = "top") =>
            IF data_payload.direction = "---"
            THEN sector_states' = sector_states
            ELSE LET d == data_payload.distance_cm
                     scale == d.d * RANGE_PRESETS[shared_state.range_key][1]
                     InBucket(i) == /\ i * scale <= d.n * NumSectors
                                    /\ d.n * NumSectors < (i + 1) * scale
                     css == IF data_payload.direction = "Staticky" THEN "static"
                            ELSE IF data_payload.direction = "Priblizovani"
                            THEN "approaching" ELSE "receding"
                 IN  \A i \in 0 .. NumSectors - 1 :
                        sector_states'[i] =
                            IF InBucket(i) THEN css ELSE sector_states[i] ]_vars

\* Two cells are occupied, after a reading at the full range (300 cm of the
\* 3 m preset) that fell outside the 64 cells.
C17_Witness ==
    /\ shared_state.range_key = "3m"
    /\ stats.max_dist_cm = Rat(RANGE_PRESETS["3m"][1], 1)
    /\ \E i, j \in 0 .. NumSectors - 1 :
            /\ i # j
            /\ sector_states[i] # "none"
            /\ sector_states[j] # "none"

\* C18: a frame is a no-target frame exactly when its peak is strictly below
\* the threshold; its reading has distance 0, speed 0, direction '---', peak
\* 0 and the statistics accumulated before, which it leaves as they are;
\* the reading built is the one published.
C18_NoTargetPolicy ==
    [][ /\ (pc = "frame" /\ pc' = "record") =>
            IF RatLess(sample'.peak, Rat(shared_state.peak_threshold, 100))
            THEN /\ data_payload' =
                        Payload("connected", Zero, Zero, "---", Zero, stats)
                 /\ stats' = stats
            ELSE /\ data_payload'.direction # "---"
                 /\ data_payload'.peak = sample'.peak
        /\ (pc = "record" /\ pc' = "top") => published' = data_payload ]_vars

\* A frame whose peak equals the threshold was published as a target, after
\* an earlier target had set the statistics.
C18_Witness ==
    /\ pc = "top"
    /\ sample.peak = Rat(shared_state.peak_threshold, 100)
    /\ published.direction # "---"
    /\ published.peak = sample.peak
    /\ published.stats.max_peak # sample.peak

\* C19: the first valid sample after the memory was unset is taken as it
\* is; every later valid sample x gives 0.4 * x + 0.6 * previous, for
\* distance and speed alike; the smoothed values lie between the smallest
\* and the largest valid sample since the memory was unset.
C19_Smoothing ==
    /\ [][(pc = "frame" /\ pc' = "record"
                /\ ~RatLess(sample'.peak, Rat(shared_state.peak_threshold, 100))) =>
            LET Blend(x, prev, nxt) ==
                    nxt.n * (EMA_ALPHA_DEN * x.d * prev.d) =
                        nxt.d * (EMA_ALPHA_NUM * x.n * prev.d
                                 + (EMA_ALPHA_DEN - EMA_ALPHA_NUM) * prev.n * x.d)
            IN  IF IsNone(smoothed_distance)
                THEN /\ smoothed_distance' = sample'.distance
                     /\ smoothed_speed' = sample'.speed
                ELSE /\ Blend(sample'.distance, smoothed_distance,
                            smoothed_distance')
                     /\ Blend(sample'.speed, smoothed_speed, smoothed_speed')
          ]_vars
    /\ [](~IsNone(smoothed_distance) =>
            /\ RatLeq(fed.dist_lo, smoothed_distance)
            /\ RatLeq(smoothed_distance, fed.dist_hi)
            /\ RatLeq(fed.speed_lo, smoothed_speed)
            /\ RatLeq(smoothed_speed, fed.speed_hi))

\* Different valid samples were blended: the smoothed values lie strictly
\* inside the range of the samples.
C19_Witness ==
    /\ frames_left = 0
    /\ faults_left = MaxFaults
    /\ RatLess(fed.dist_lo, smoothed_distance)
    /\ RatLess(smoothed_distance, fed.dist_hi)
    /\ RatLess(fed.speed_lo, smoothed_speed)
    /\ RatLess(smoothed_speed, fed.speed_hi)

\* C20: a valid sample x moves the smoothed value s to s' with
\* s' - x = 0.6 * (s - x), for distance and speed; in particular s = x
\* gives s' = x.
C20_EmaContracts ==
    [][(pc = "frame" /\ pc' = "record" /\ ~IsNone(smoothed_distance)
            /\ ~RatLess(sample'.peak, Rat(shared_state.peak_threshold, 100))) =>
        LET Gap(nxt, x) == Rat(nxt.n * x.d - x.n * nxt.d, nxt.d * x.d)
            Shrinks(nxt, prev, x) ==
                LET g1 == Gap(nxt, x)
                    g0 == Gap(prev, x)
                IN  Rat(EMA_ALPHA_DEN * g1.n, g1.d) =
                        Rat((EMA_ALPHA_DEN - EMA_ALPHA_NUM) * g0.n, g0.d)
        IN  /\ Shrinks(smoothed_distance', smoothed_distance, sample'.distance)
            /\ Shrinks(smoothed_speed', smoothed_speed, sample'.speed)
            /\ smoothed_distance = sample'.distance =>
                    smoothed_distance' = sample'.distance
            /\ smoothed_speed = sample'.speed =>
                    smoothed_speed' = sample'.speed ]_vars

\* With the 8 m preset a target at 100 cm was followed twice by the same
\* sample at 240 cm: the gap of 140 cm is 0.6 * 0.6 * 140 = 50.4 cm now.
C20_Witness ==
    /\ pc = "record"
    /\ sample.distance = Rat(240, 1)
    /\ fed.dist_lo = Rat(100, 1)
    /\ fed.dist_hi = Rat(240, 1)
    /\ smoothed_distance = Rat(1896, 10)

\* C21: the direction of a valid reading is decided by the smoothed speed
\* alone, and by exactly one of three cases: its magnitude is below 0.2 m/s
\* (static); otherwise it is negative (approaching) or positive (receding).
C21_DirectionFromSmoothedSpeed ==
    [][(pc = "frame" /\ pc' = "record"
            /\ ~RatLess(sample'.peak, Rat(shared_state.peak_threshold, 100))) =>
        LET s == smoothed_speed'
            slow == SpeedResolutionInv * Abs(s.n) < s.d
            dir == data_payload'.direction
        IN  /\ dir \in {"Staticky", "Priblizovani", "Vzdalovani"}
            /\ dir = "Staticky" <=> slow
            /\ dir = "Priblizovani" <=> ~slow /\ s.n < 0
            /\ dir = "Vzdalovani" <=> ~slow /\ s.n > 0 ]_vars

\* The sample of the cycle is slow, the smoothed speed is not: the reading
\* says approaching.
C21_Witness ==
    /\ pc = "top"
    /\ sample.speed = Rat(3, DEFAULT_NUM_CHIRPS - 1)
    /\ published.direction = "Priblizovani"
    /\ RatLess(published.speed_ms, Rat(0 - 1, SpeedResolutionInv))

\* C22: after every valid cycle each running minimum and maximum is the
\* smallest and the largest of the smoothed distances, the smoothed speeds
\* and the raw peaks of the valid cycles since the statistics were last
\* reset; a reset leaves the minima unset.
C22_RunningStatistics ==
    [][IF pc = "frame" /\ pc' = "record"
            /\ ~RatLess(sample'.peak, Rat(shared_state.peak_threshold, 100))
       THEN LET first == IsNone(stats.min_dist_cm)
                Least(cur, x) == IF first \/ RatLess(x, cur) THEN x ELSE cur
                Most(cur, x) == IF first \/ RatLess(cur, x) THEN x ELSE cur
            IN  /\ stats'.min_dist_cm = Least(stats.min_dist_cm, smoothed_distance')
                /\ stats'.max_dist_cm = Most(stats.max_dist_cm, smoothed_distance')
                /\ stats'.min_speed_ms = Least(stats.min_speed_ms, smoothed_speed')
                /\ stats'.max_speed_ms = Most(stats.max_speed_ms, smoothed_speed')
                /\ stats'.min_peak = Least(stats.min_peak, sample'.peak)
                /\ stats'.max_peak = Most(stats.max_peak, sample'.peak)
       ELSE stats' # stats =>
                /\ IsNone(stats'.min_dist_cm)
                /\ IsNone(stats'.min_speed_ms)
                /\ IsNone(stats'.min_peak) ]_vars

\* C23: a freshly started controller that processed SteadyRun frames with a
\* sample of 1.00 m, speed 0 and a peak at or above the threshold reports a
\* static target at 100 cm, with both distance statistics at 100 cm, and the
\* last SteadyRun entries of the history are (100, static).
C23_SteadyTarget ==
    (pc = "top" /\ frames_left = 0 /\ device.state = "acquiring") =>
        /\ published.direction = "Staticky"
        /\ published.distance_cm = Rat(100, 1)
        /\ published.stats.min_dist_cm = Rat(100, 1)
        /\ published.stats.max_dist_cm = Rat(100, 1)
        /\ Len(data_history) >= SteadyRun
        /\ \A i \in 1 .. Len(data_history) :
                i > Len(data_history) - SteadyRun =>
                    data_history[i] = [dist |-> Rat(100, 1), dir |-> "Staticky"]

\* All frames of the run were processed; every sample had speed 0 and the
\* ring is full.
C23_Witness ==
    /\ pc = "top"
    /\ frames_left = 0
    /\ sample.distance = Rat(100, 1)
    /\ sample.speed = Zero
    /\ fed.speed_lo = Zero
    /\ fed.speed_hi = Zero
    /\ published.stats.min_peak # published.stats.max_peak
    /\ Len(data_history) = HistoryMaxLen

\* C24: for a frame of the configured shape with its peak in Doppler row d
\* and range column r, compute_doppler_map returns r times the range
\* resolution and the d-th of chirps_per_frame equally spaced points from
\* -max_speed to +max_speed; the distance lies between 0 and
\* (samples_per_chirp / 2 - 1) times the resolution and the speed between
\* -max_speed and +max_speed.
C24_AxisLookup ==
    [][(pc = "frame" /\ pc' = "record"
            /\ frame_contents'.shape = "configured") =>
        LET cell == PeakCell(frame_contents', algo)
            d == cell.doppler_idx
            r == cell.range_idx
            chirps == algo.num_chirps_per_frame
            res == algo.range_resolution
            dist == sample'.distance
            speed == sample'.speed
        IN  /\ dist = [n |-> r * res, d |-> 1]
            /\ IF chirps = 1 THEN speed = [n |-> 0 - MaxSpeed, d |-> 1]
               ELSE speed.n * (chirps - 1) =
                        speed.d * (2 * MaxSpeed * d - MaxSpeed * (chirps - 1))
            /\ 0 <= dist.n
            /\ dist.n <= (NumSamples \div 2 - 1) * res * dist.d
            /\ (0 - MaxSpeed) * speed.d <= speed.n
            /\ speed.n <= MaxSpeed * speed.d ]_vars

\* 64 chirps were configured and the peak lies in row 32, column 5 of the
\* map: 100 cm with the 8 m preset, and the 33rd of 64 points, 1/21 m/s.
C24_Witness ==
    /\ pc = "record"
    /\ algo.num_chirps_per_frame = 64
    /\ PeakCell(frame_contents, algo) = [doppler_idx |-> 32, range_idx |-> 5]
    /\ sample.distance = Rat(100, 1)
    /\ sample.speed = Rat(1, 21)

\* C25: a frame of zeros has peak 0 and, the threshold being positive, is a
\* no-target cycle: the reading has direction '---' and distance 0, the
\* smoothing memory and the statistics keep their values, and publishing it
\* changes no sector cell.
C25_ZeroFrame ==
    [][/\ (pc = "frame" /\ pc' = "record" /\ frame_contents' = EmptyFrame
                /\ shared_state.peak_threshold > 0) =>
            /\ sample'.peak = Zero
            /\ \A t \in 1 .. 100 : ~IsTarget(sample'.peak, t)
            /\ data_payload'.direction = "---"
            /\ data_payload'.distance_cm = Zero
            /\ smoothed_distance' = smoothed_distance
            /\ smoothed_speed' = smoothed_speed
            /\ stats' = stats
       /\ (pc = "record" /\ frame_contents = EmptyFrame
                /\ data_payload.direction = "---") =>
            /\ published'.direction = "---"
            /\ published'.distance_cm = Zero
            /\ pc' = "top"
            /\ sector_states' = sector_states ]_vars

\* A frame of zeros followed a target: the reading shows no target, the
\* memory, the statistics and the sector of the target are still there.
C25_Witness ==
    /\ pc = "top"
    /\ frame_contents = EmptyFrame
    /\ published.direction = "---"
    /\ published.distance_cm = Zero
    /\ ~IsNone(smoothed_distance)
    /\ ~IsNone(stats.min_dist_cm)
    /\ sector_states # NoSectors

\* C26: a frame whose chirps are all the same sinusoid at range column k is
\* detected: its peak reaches the threshold, the distance is within one
\* resolution cell of k times the range resolution, and with no older
\* smoothing memory the reading is static.
C26_StaticSinusoidDetected ==
    [][(pc = "frame" /\ frames_left' # frames_left
            /\ frame_contents' = StaticFrame) =>
        LET k == StaticFrame.col
            res == algo.range_resolution
            dist == sample'.distance
        IN  /\ pc' = "record"
            /\ IsTarget(sample'.peak, shared_state.peak_threshold)
            /\ (k - 1) * res * dist.d <= dist.n
            /\ dist.n <= (k + 1) * res * dist.d
            /\ data_payload'.direction # "---"
            /\ IsNone(smoothed_speed) => data_payload'.direction = "Staticky" ]_vars

\* C27: a delivered frame whose number of chirps or samples differs from the
\* processor's gives the sample (0, 0, 0) and a no-target reading, and the
\* controller keeps acquiring with the same device.
C27_MismatchIsNoTarget ==
    [][(pc = "frame" /\ frames_left' # frames_left
            /\ frame_contents' \in MismatchedFrames) =>
        /\ pc' = "record"
        /\ sample' = [distance |-> Zero, speed |-> Zero, peak |-> Zero]
        /\ data_payload'.direction = "---"
        /\ device' = device
        /\ device.state = "acquiring" ]_vars

\* C28: state_lock is not held while a call of the device executes: the last
\* device call, whichever it was, was made without the lock.
C28_NoLockAcrossDeviceCall == device_call.lock = "none"

\* C29: whenever the controller is about to read or is processing a frame,
\* the processor in use was built for the configuration written to the
\* device that delivers the frame: its chirp count (clamped or not) and the
\* range resolution of its preset.
C29_ProcessorIsFresh ==
    pc \in {"frame", "record"} =>
        /\ device.state = "acquiring"
        /\ device.range_key \in DOMAIN RANGE_PRESETS
        /\ algo.num_chirps_per_frame = device.num_chirps
        /\ algo.num_chirps_per_frame = num_chirps
        /\ algo.range_resolution = RANGE_PRESETS[device.range_key][2]

\* After a reconfiguration that stopped the earlier device, the processor
\* has the clamped chirp count and the resolution of the other preset.
C29_Witness ==
    /\ pc = "frame"
    /\ teardown = "stopped"
    /\ warning.issued
    /\ algo.num_chirps_per_frame = warning.num_chirps
    /\ algo.num_chirps_per_frame # DEFAULT_NUM_CHIRPS
    /\ device.num_chirps = warning.num_chirps

\* C30: at most one thread is acquiring at any time: a thread the handler
\* asked to stop and then replaced reads no frame while its successor is in
\* the frame loop, and the frame it was waiting for is its last one.
C30_OneAcquiringThread ==
    [][(/\ orphans > 0
        /\ radar_pc' = radar_pc
        /\ last_success' = now
        /\ <<last_success, last_frame_time, marker_writer>>' #
                <<last_success, last_frame_time, marker_writer>>) =>
            /\ radar_pc \notin {"loop", "frame"}
            /\ orphans' < orphans ]_vars

\* C31: the thread of the event loop never waits for thread_lock while the
\* lock is held by a handler coroutine that needs this event loop to go on:
\* no handler waits for ever and the event loop is never blocked for good.
C31_HandlersComplete ==
    ~(/\ loop_thread = "blocked"
      /\ thread_lock \in Clients
      /\ coro[thread_lock].at = "broadcast")

\* The lock that thread t is waiting for, if any.
Awaited(t) ==
    IF /\ threads[t].alive
       /\ threads[t].ops # <<>>
       /\ Head(threads[t].ops).do = "acquire"
       /\ lock_holder[Head(threads[t].ops).what] # "free"
    THEN Head(threads[t].ops).what
    ELSE "none"

\* t waits for a lock that u holds.
WaitsFor(t, u) == Awaited(t) # "none" /\ lock_holder[Awaited(t)] = u

\* C32: no thread waits for a lock that it holds itself, and no two or three
\* threads wait for each other's locks in a circle.
C32_NoCircularWait ==
    \A t \in Threads :
        /\ ~WaitsFor(t, t)
        /\ \A u \in Threads : ~(WaitsFor(t, u) /\ WaitsFor(u, t))
        /\ \A u, v \in Threads :
              ~(WaitsFor(t, u) /\ WaitsFor(u, v) /\ WaitsFor(v, t))

\* get_plot holds watchdog_lock and state_lock while the acquisition thread
\* waits for one of them.
C32_Witness ==
    /\ program = "histogram.py"
    /\ lock_holder["watchdog_lock"] = "loop"
    /\ lock_holder["state_lock"] = "loop"
    /\ WaitsFor("radar", "loop")

\* C38: in histogram.py the watchdog thread started by lifespan stays alive
\* for the life of the process, so that it can go on ticking.
C38_WatchdogStaysAlive ==
    program = "histogram.py" => threads["watchdog"].alive

\* The range, frame rate and chirp count of a message or of shared_state.
Requested(m) == <<m.range_key, m.frate, m.num_chirps>>

\* C33: the pending flag never lags the shared configuration: after the
\* handler has dealt with a message, whatever keys it carries, either the
\* shared range_key, frate and num_chirps are what they were or reconfigure
\* is set.
C33_FlagNeverLags ==
    [][msgs_left' = msgs_left - 1 =>
            \/ Requested(shared_state') = Requested(shared_state)
            \/ shared_state'.reconfigure]_vars

\* C34: a message that repeats the range, frame rate and chirp count of the
\* client's last request, changing at most the sensitivity, does not ask for
\* a reconfiguration: the device stream, statistics and sectors are kept.
C34_SensitivityOnlyKeepsStream ==
    [][(/\ msgs_left' = msgs_left - 1
        /\ last_msg # NoMsg
        /\ Requested(last_msg') = Requested(last_msg))
          => shared_state'.reconfigure = shared_state.reconfigure]_vars

\* C35: whatever the clients have submitted, once the device no longer fails
\* the controller publishes 'connected' readings again and again.
C35_NoValueTakesDeviceOut ==
    <>[](faults_left = 0) => []<>(published.status = "connected")

\* lo <= x <= hi
Brackets(lo, x, hi) == ~RatLess(x, lo) /\ ~RatLess(hi, x)

\* An unset minimum may become any value; a set one never increases.
NotAbove(new, old) == IsNone(old) \/ (~IsNone(new) /\ ~RatLess(old, new))

\* C36: the statistics of a reading published for a valid sample bracket its
\* distance, speed and peak, and as long as the statistics are not reset the
\* minima never increase and the maxima never decrease.
C36_StatisticsBracketReading ==
    /\ [](published.status = "connected" /\ published.direction # "---" =>
            /\ Brackets(published.stats.min_dist_cm, published.distance_cm,
                        published.stats.max_dist_cm)
            /\ Brackets(published.stats.min_speed_ms, published.speed_ms,
                        published.stats.max_speed_ms)
            /\ Brackets(published.stats.min_peak, published.peak,
                        published.stats.max_peak))
    /\ [][stats' # reset_stats =>
            /\ NotAbove(stats'.min_dist_cm, stats.min_dist_cm)
            /\ NotAbove(stats'.min_speed_ms, stats.min_speed_ms)
            /\ NotAbove(stats'.min_peak, stats.min_peak)
            /\ ~RatLess(stats'.max_dist_cm, stats.max_dist_cm)
            /\ ~RatLess(stats'.max_speed_ms, stats.max_speed_ms)
            /\ ~RatLess(stats'.max_peak, stats.max_peak)]_vars

\* A reading for a valid sample strictly inside the statistics since the
\* reset, published after a no-target frame.
C36_Witness ==
    /\ published.status = "connected"
    /\ published.direction # "---"
    /\ RatLess(published.stats.min_dist_cm, published.distance_cm)
    /\ RatLess(published.distance_cm, published.stats.max_dist_cm)
    /\ \E i \in DOMAIN data_history : data_history[i].dir = "---"

\* C37: a below-threshold frame leaves the smoothing memory as it was, and a
\* valid sample that follows earlier valid samples is blended with the
\* smoothed values of the last of them, also in radar_webserver.py.
C37_NoTargetKeepsMemory ==
    [][webserver'.frames_left < webserver.frames_left =>
        IF IsTarget(webserver'.sample.peak, PEAK_THRESHOLD)
        THEN ~IsNone(webserver.carried.distance) =>
                /\ webserver'.smoothed_distance =
                        Ema(webserver'.sample.distance,
                            webserver.carried.distance)
                /\ webserver'.smoothed_speed =
                        Ema(webserver'.sample.speed, webserver.carried.speed)
        ELSE /\ webserver'.smoothed_distance = webserver.smoothed_distance
             /\ webserver'.smoothed_speed = webserver.smoothed_speed]_vars

\* C39: for every number of chirps and every position of the peak,
\* compute_doppler_map of helper.py and dop_me.py returns without raising
\* and its speed lies in [-max_speed_m_s, max_speed_m_s].
C39_SpeedAxisCoversFrame ==
    doppler.at # "frame" =>
        /\ doppler.raised = "none"
        /\ Brackets(Rat(0 - MaxSpeed, 1), doppler.speed, Rat(MaxSpeed, 1))

\* Which way a label says the target moves, whatever the language.
Sense(direction) ==
    CASE direction \in {"Static", "static", "Staticky"} -> "static"
      [] direction \in {"Approaching", "approaching", "Priblizovani"}
            -> "approaching"
      [] direction \in {"Receding", "receding", "Vzdalovani"} -> "receding"
      [] OTHER -> "none"

\* C40: the direction that dop_me.py prints for a speed says the same as the
\* labels that test.py and radar_webserver.py derive from that speed.
C40_OneSignConvention ==
    doppler.at = "printed" =>
        /\ Sense(doppler.direction) = Sense(Classify(doppler.speed))
        /\ Sense(doppler.direction) = Sense(ServerClassify(doppler.speed))

====
